---- MODULE Spec2Model ----
(***************************************************************************)
(* EduFundia scoring and budget-recommendation core.                       *)
(*                                                                         *)
(* Numbers that the Python code computes with (Numeric columns, floats)    *)
(* are modelled as exact rationals [n |-> numerator, d |-> denominator]    *)
(* in lowest terms with d > 0.  Optional columns are modelled as a         *)
(* sequence of length 0 (None) or 1 (a value).                             *)
(***************************************************************************)
EXTENDS Integers, Sequences, FiniteSets, TLC

(***************************************************************************)
(* Exact rational arithmetic                                               *)
(***************************************************************************)
Abs(x) == IF x < 0 THEN -x ELSE x

RECURSIVE GCD(_, _)
GCD(a, b) == IF b = 0 THEN a ELSE GCD(b, a % b)

Rat(n, d) ==
    LET s == IF d < 0 THEN -1 ELSE 1
        g == GCD(Abs(n), Abs(d))
    IN  [n |-> (s * n) \div g, d |-> (s * d) \div g]

R(i) == [n |-> i, d |-> 1]

\* sums over the least common denominator, products after cross-cancelling
RAdd(a, b) ==
    LET g == GCD(a.d, b.d)
    IN  Rat(a.n * (b.d \div g) + b.n * (a.d \div g), (a.d \div g) * b.d)
RNeg(a) == [n |-> -a.n, d |-> a.d]
RSub(a, b) == RAdd(a, RNeg(b))
RMul(a, b) ==
    LET g1 == GCD(Abs(a.n), b.d)
        g2 == GCD(Abs(b.n), a.d)
    IN  IF a.n = 0 \/ b.n = 0 THEN [n |-> 0, d |-> 1]
        ELSE [n |-> (a.n \div g1) * (b.n \div g2), d |-> (a.d \div g2) * (b.d \div g1)]
RInv(a) == IF a.n < 0 THEN [n |-> -a.d, d |-> -a.n] ELSE [n |-> a.d, d |-> a.n]
RDiv(a, b) == RMul(a, RInv(b))
RLt(a, b) == RSub(a, b).n < 0
RLe(a, b) == RSub(a, b).n <= 0
RMin(a, b) == IF RLe(a, b) THEN a ELSE b
RMax(a, b) == IF RLe(a, b) THEN b ELSE a
RAbs(a) == [n |-> Abs(a.n), d |-> a.d]

RECURSIVE RSum(_)
RSum(s) == IF s = <<>> THEN R(0) ELSE RAdd(Head(s), RSum(Tail(s)))

(***************************************************************************)
(* Python helpers                                                          *)
(***************************************************************************)
None == <<>>
Some(x) == <<x>>

\* truthiness of an Optional[number]: None and 0 are falsy
Truthy(o) == o # None /\ o[1].n # 0

\* Python `a or b` on an optional number a and a number b
OrElse(o, b) == IF Truthy(o) THEN o[1] ELSE b

\* round(x, 2): nearest multiple of 1/100, exact ties to the even neighbour.
\* Python rounds the binary float, so a decimal tie such as 1875.015 goes
\* whichever way its float lies; off ties the two agree.
RoundHalfEven(n, d) ==
    LET q == n \div d
        r == n % d
    IN  IF 2 * r > d \/ (2 * r = d /\ q % 2 = 1) THEN q + 1 ELSE q

Round2(x) == Rat(RoundHalfEven(x.n * 100, x.d), 100)

(***************************************************************************)
(* Bounds of the model                                                     *)
(***************************************************************************)
MaxExpenses == 2

(***************************************************************************)
(* State                                                                   *)
(***************************************************************************)
VARIABLES
    student,            \* the Student row the requests are about
    expenses,           \* amounts of the student's expenses of the last 30 days
    budgets,            \* the student's Budget rows
    applications,       \* statuses of the student's ScholarshipApplication rows
    financial_stress_score,   \* Student.financial_stress_score (snapshot)
    dropout_risk_score,       \* Student.dropout_risk_score (snapshot)
    initialized,        \* VertexAIClient.initialized
    pc,                 \* position of the generate_budget_recommendation request
    request_expenses,   \* the `expenses` argument of the request
    ai_response,        \* what the awaited generate_content call produced
    budget_result,      \* the dict the request returned
    ai_calls,           \* generate_content calls issued by the request
    rule_calls,         \* _generate_rule_based_budget calls made by the request
    rule_log,           \* every call of _generate_rule_based_budget: arguments and dict
    batch_students,     \* the Student rows a batch operation selects
    batch_args,         \* threshold and limit of the batch request
    get_db_kind,        \* what core.database.get_db() hands to its caller
    batch_result,       \* what the batch operation gave its caller
    workers,            \* the update_student_risk_scores calls in flight
    budget_rows,        \* the budgets table: amounts and status of each row
    expense_rows,       \* the expenses table: amount and budget link of each row
    scholarships,       \* the active Scholarship rows the matcher considers
    match_limit,        \* the `limit` argument of the matcher
    amount_type,        \* the Python type Scholarship.amount is loaded as
    match_result,       \* what match_scholarships_for_student came back with
    assess_pc,          \* position of the get_risk_assessment request
    use_ai,             \* the `use_ai` argument of the request
    recommendations,    \* the `recommendations` list of the request so far
    ai_insights,        \* what the awaited AI stress analysis came back with
    assessment,         \* the RiskAssessment the request returned
    student_rows,       \* the students table: profile, expenses and snapshot per id
    lookup,             \* the RiskService call by student id that just ended
    category_expenses,  \* the expenses of the analysed period: category and amount
    category_insights,  \* what get_category_insights returned
    alert_budget,       \* the Budget row check_budget_alerts is called for
    now,                \* the clock, in half days
    checkers,           \* the check_budget_alerts calls in flight
    alert_log,          \* every alert payload handed to a caller, with its time
    period_rows,        \* the budgets table: student, status, dates and period of each row
    creators,           \* the create_budget calls between their query and their commit
    period_outcome,     \* how the budget call that just ended came out
    payments,           \* the payments table: amount, status and refunded payment of each row
    refunders,          \* the create_refund calls in flight
    payment_outcome     \* how the payment call that just ended came out

riskVars == <<expenses, budgets, applications,
              financial_stress_score, dropout_risk_score>>

recVars == <<initialized, pc, request_expenses, ai_response, budget_result,
             ai_calls, rule_calls, rule_log>>

batchVars == <<batch_students, batch_args, get_db_kind, batch_result>>

workerVars == <<workers>>

ledgerVars == <<budget_rows, expense_rows>>

matchVars == <<scholarships, match_limit, amount_type, match_result>>

assessVars == <<assess_pc, use_ai, recommendations, ai_insights, assessment>>

\* the variables of the parts that follow the matcher
lookupVars == <<student_rows, lookup>>

insightVars == <<category_expenses, category_insights>>

alertVars == <<alert_budget, now, checkers, alert_log>>

periodVars == <<period_rows, creators, period_outcome>>

paymentVars == <<payments, refunders, payment_outcome>>

lateVars == <<assessVars, lookupVars, insightVars, alertVars, periodVars, paymentVars>>

vars == <<student, riskVars, recVars, batchVars, workerVars, ledgerVars, matchVars,
          lateVars>>

\* the state of each part of the service while no request of that part exists
BatchIdle ==
    /\ batch_students = <<>>
    /\ batch_args = <<>>
    /\ get_db_kind = "async_generator"
    /\ batch_result = <<>>

WorkersIdle == workers = <<>>

LedgerIdle ==
    /\ budget_rows = <<>>
    /\ expense_rows = <<>>

MatchIdle ==
    /\ scholarships = <<>>
    /\ match_limit = 0
    /\ amount_type = ""
    /\ match_result = <<>>

AssessIdle ==
    /\ assess_pc = "idle"
    /\ use_ai = FALSE
    /\ recommendations = <<>>
    /\ ai_insights = <<>>
    /\ assessment = <<>>

LookupIdle ==
    /\ student_rows = <<>>
    /\ lookup = <<>>

InsightsIdle ==
    /\ category_expenses = <<>>
    /\ category_insights = <<>>

AlertsIdle ==
    /\ alert_budget = <<>>
    /\ now = 0
    /\ checkers = <<>>
    /\ alert_log = {}

PeriodsIdle ==
    /\ period_rows = <<>>
    /\ creators = <<>>
    /\ period_outcome = <<>>

PaymentsIdle ==
    /\ payments = <<>>
    /\ refunders = <<>>
    /\ payment_outcome = <<>>

LateIdle ==
    /\ AssessIdle
    /\ LookupIdle
    /\ InsightsIdle
    /\ AlertsIdle
    /\ PeriodsIdle
    /\ PaymentsIdle

(***************************************************************************)
(* RiskService                                                             *)
(***************************************************************************)
\* func.coalesce(func.sum(Expense.amount), 0) over the trailing 30 days
monthly_expenses_of(exps) == RSum(exps)

\* student.monthly_allowance or (student.family_annual_income / 12)
monthly_income_of(s) ==
    OrElse(s.monthly_allowance, RDiv(s.family_annual_income, R(12)))

\* Factor 1: expense-to-income ratio
expense_score_of(s, exps) ==
    LET monthly_income == monthly_income_of(s)
    IN  IF RLt(R(0), monthly_income)
        THEN RMin(RMul(RDiv(monthly_expenses_of(exps), monthly_income), R(100)), R(100))
        ELSE R(100)

\* a debt burden on the scale of _calculate_debt_burden (ratio x 100)
debt_score_of_ratio_percent(s) ==
    IF s.has_education_loan /\ Truthy(s.education_loan_amount)
       /\ RLt(R(0), s.family_annual_income)
    THEN RMin(RMul(RDiv(s.education_loan_amount[1], s.family_annual_income), R(100)), R(100))
    ELSE R(0)

\* Factor 2: debt burden
debt_score_of(s) ==
    IF s.has_education_loan /\ Truthy(s.education_loan_amount)
       /\ RLt(R(0), s.family_annual_income)
    THEN RMin(RMul(RDiv(s.education_loan_amount[1], s.family_annual_income), R(200)), R(100))
    ELSE R(0)

\* Factor 3: savings buffer
savings_score_of(s, exps) ==
    LET monthly_income == monthly_income_of(s)
        monthly_expenses == monthly_expenses_of(exps)
    IN  IF RLt(R(0), monthly_income)
        THEN IF RLt(monthly_expenses, RMul(monthly_income, Rat(8, 10))) THEN R(20)
             ELSE IF RLe(monthly_income, monthly_expenses) THEN R(100)
             ELSE R(0)
        ELSE R(0)

\* per-budget penalty inside _calculate_budget_compliance_score
budget_penalty(b) ==
    LET utilization == RDiv(b.spent_amount, b.total_amount)
        score == IF RLe(Rat(8, 10), utilization) /\ RLe(utilization, Rat(9, 10)) THEN R(0)
                 ELSE IF RLt(R(1), utilization) THEN R(100)
                 ELSE RMul(RAbs(RSub(utilization, Rat(85, 100))), R(200))
    IN  RMin(score, R(100))

\* a compliance score over the budgets of every status
calculate_budget_compliance_score_any_status(bs) ==
    LET counted == SelectSeq(bs, LAMBDA b : RLt(R(0), b.total_amount))
        penalties == [i \in 1..Len(counted) |-> budget_penalty(counted[i])]
    IN  IF bs = <<>> THEN R(50)
        ELSE IF Len(counted) > 0 THEN RDiv(RSum(penalties), R(Len(counted)))
        ELSE R(50)

calculate_budget_compliance_score(bs) ==
    LET active == SelectSeq(bs, LAMBDA b : b.status = "active")
        counted == SelectSeq(active, LAMBDA b : RLt(R(0), b.total_amount))
        penalties == [i \in 1..Len(counted) |-> budget_penalty(counted[i])]
    IN  IF active = <<>> THEN R(50)
        ELSE IF Len(counted) > 0 THEN RDiv(RSum(penalties), R(Len(counted)))
        ELSE R(50)

\* min(max(x, 0), 100)
clamp_score_missing(x) == x

clamp_score(x) == RMin(RMax(x, R(0)), R(100))

calculate_financial_stress_score(s, exps, bs) ==
    LET stress_score ==
            RAdd(RAdd(RMul(expense_score_of(s, exps), Rat(40, 100)),
                      RMul(debt_score_of(s), Rat(25, 100))),
                 RAdd(RMul(savings_score_of(s, exps), Rat(20, 100)),
                      RMul(calculate_budget_compliance_score(bs), Rat(15, 100))))
    IN  clamp_score(stress_score)

calculate_scholarship_success_score(apps) ==
    LET isSuccess(a) == a \in {"approved", "awarded", "disbursed"}
        isOther(a) == a \in {"rejected", "submitted", "under_review"}
        successful == Len(SelectSeq(apps, isSuccess))
        total_considered == successful + Len(SelectSeq(apps, isOther))
    IN  IF apps = <<>> THEN R(50)
        ELSE IF total_considered = 0 THEN R(50)
        ELSE RSub(R(100), RMul(Rat(successful, total_considered), R(100)))

calculate_year_risk_factor(current_year) ==
    IF current_year = 1 THEN R(70)
    ELSE IF current_year >= 4 THEN R(60)
    ELSE R(40)

\* Factor 2 of calculate_dropout_risk_score: `if student.current_cgpa:` is
\* false for None and for a CGPA of 0
academic_factor_of(s) ==
    IF Truthy(s.current_cgpa)
    THEN IF RLt(s.current_cgpa[1], R(6)) THEN RMul(R(80), Rat(2, 10))
         ELSE IF RLt(s.current_cgpa[1], R(7)) THEN RMul(R(40), Rat(2, 10))
         ELSE RMul(R(10), Rat(2, 10))
    ELSE RMul(R(30), Rat(2, 10))

calculate_dropout_risk_score(s, exps, bs, apps) ==
    LET financial_factor == RMul(calculate_financial_stress_score(s, exps, bs), Rat(6, 10))
        scholarship_factor == RMul(calculate_scholarship_success_score(apps), Rat(1, 10))
        year_factor == RMul(calculate_year_risk_factor(s.current_year), Rat(1, 10))
        dropout_risk == RAdd(RAdd(financial_factor, academic_factor_of(s)),
                             RAdd(scholarship_factor, year_factor))
    IN  clamp_score(dropout_risk)

(***************************************************************************)
(* VertexAIClient                                                          *)
(***************************************************************************)
\* str.lower() on the city names that occur in the model
\* a lookup that takes the city as it is written
lower_as_written(city) == city

\* city.lower(), on the city names of the model
lower(city) ==
    CASE city = "Mumbai" -> "mumbai"
      [] city = "BANGALORE" -> "bangalore"
      [] OTHER -> city

\* the city_costs table, as tenths
city_costs ==
    [c \in {"mumbai", "bombay"} |-> 15] @@
    [c \in {"bangalore", "bengaluru", "navi mumbai"} |-> 14] @@
    [c \in {"delhi", "new delhi", "thane"} |-> 13] @@
    [c \in {"chennai", "madras", "pune", "poona", "kalyan", "vasai"} |-> 12] @@
    [c \in {"hyderabad", "chandigarh"} |-> 11] @@
    [c \in {"kolkata", "calcutta", "ghaziabad", "faridabad"} |-> 10] @@
    [c \in {"ahmedabad", "vadodara", "nashik", "howrah", "coimbatore"} |-> 9] @@
    [c \in {"jaipur", "lucknow", "nagpur", "indore", "bhopal", "visakhapatnam",
            "patna", "ludhiana", "meerut", "rajkot", "srinagar", "aurangabad",
            "amritsar", "ranchi", "vijayawada", "madurai", "raipur", "guwahati",
            "tiruchirappalli"} |-> 8] @@
    [c \in {"kanpur", "agra", "varanasi", "dhanbad", "allahabad", "jabalpur",
            "gwalior", "jodhpur", "kota", "solapur", "hubli", "dharwad",
            "tirunelveli"} |-> 7]

get_city_cost_index(city) ==
    IF lower(city) \in DOMAIN city_costs
    THEN Rat(city_costs[lower(city)], 10)
    ELSE R(1)

CategoryNames == <<"tuition_fee", "hostel_fee", "food", "transport",
                   "books", "medical", "entertainment", "savings">>

\* the `allocations` table of _generate_rule_based_budget
allocations ==
    [tuition_fee |-> [percentage |-> 40, rationale |-> "Academic fees and college expenses"],
     hostel_fee |-> [percentage |-> 25, rationale |-> "Accommodation and utilities"],
     food |-> [percentage |-> 20, rationale |-> "Food and groceries"],
     transport |-> [percentage |-> 5, rationale |-> "Local transportation"],
     books |-> [percentage |-> 5, rationale |-> "Study materials and books"],
     medical |-> [percentage |-> 2, rationale |-> "Healthcare and insurance"],
     entertainment |-> [percentage |-> 2, rationale |-> "Recreation and social activities"],
     savings |-> [percentage |-> 1, rationale |-> "Emergency fund and savings"]]

DefaultBaseAmount == 10000

RuleRecommendations ==
    <<"Consider applying for scholarships to reduce financial burden",
      "Track expenses weekly to stay within budget",
      "Look for student discounts on transportation and entertainment",
      "Build an emergency fund of at least 3 months' expenses">>

RuleWarnings ==
    <<"Based on rule-based allocation due to AI service limitation",
      "Adjust percentages based on actual spending patterns",
      "Monitor spending closely during initial months">>

\* the base amount as a generator that falls back on the observed spending
\* would compute it
base_amount_from_spending(s, exps) ==
    LET monthly_income == monthly_income_of(s)
    IN  IF monthly_income.n # 0 THEN monthly_income
        ELSE IF RSum(exps).n # 0 THEN RSum(exps)
        ELSE R(DefaultBaseAmount)

\* monthly_income or 10000
base_amount_of(s, exps) ==
    LET monthly_income == monthly_income_of(s)
    IN  IF monthly_income.n # 0 THEN monthly_income ELSE R(DefaultBaseAmount)

generate_rule_based_budget(s, exps) ==
    LET adjusted_amount == RMul(base_amount_of(s, exps), get_city_cost_index(s.city))
    IN  [total_monthly_budget |-> Round2(adjusted_amount),
         categories |->
            [name \in DOMAIN allocations |->
                [amount |-> Round2(RMul(adjusted_amount,
                                        Rat(allocations[name].percentage, 100))),
                 percentage |-> R(allocations[name].percentage),
                 rationale |-> <<allocations[name].rationale>>]],
         ai_confidence_score |-> Rat(7, 10),
         key_recommendations |-> RuleRecommendations,
         risk_warnings |-> RuleWarnings]

\* names of the categories of a budget dict, in the order of CategoryNames
names_of(categories) == SelectSeq(CategoryNames, LAMBDA c : c \in DOMAIN categories)

sum_amounts(categories) ==
    LET names == names_of(categories)
    IN  RSum([i \in 1..Len(names) |-> categories[names[i]].amount])

sum_percentages(categories) ==
    LET names == names_of(categories)
    IN  RSum([i \in 1..Len(names) |-> categories[names[i]].percentage])

CapWarning == "Budget capped to 120% of monthly allowance for sustainability"
AdjustedNote == " (Adjusted to minimum)"

\* monthly_income * 1.2
max_reasonable_of(s) == RMul(monthly_income_of(s), Rat(12, 10))

cap_applies(budget_data, s) ==
    /\ RLt(max_reasonable_of(s), budget_data.total_monthly_budget)
    /\ RLt(R(0), max_reasonable_of(s))

\* a capping block that scales the categories but leaves the dict's total
apply_budget_cap_keeping_total(budget_data, s) ==
    LET total == budget_data.total_monthly_budget
        max_reasonable == max_reasonable_of(s)
        scaling_factor == RDiv(max_reasonable, total)
        scaled(category) ==
            LET amount == RMul(category.amount, scaling_factor)
            IN  [category EXCEPT !.amount = amount,
                                 !.percentage = RMul(RDiv(amount, max_reasonable), R(100))]
    IN  IF cap_applies(budget_data, s)
        THEN [budget_data EXCEPT
                !.categories = [c \in DOMAIN budget_data.categories |->
                                    scaled(budget_data.categories[c])],
                !.risk_warnings = Append(budget_data.risk_warnings, CapWarning)]
        ELSE budget_data

\* _validate_budget_recommendation, the capping block
apply_budget_cap(budget_data, s) ==
    LET total == budget_data.total_monthly_budget
        max_reasonable == max_reasonable_of(s)
        scaling_factor == RDiv(max_reasonable, total)
        scaled(category) ==
            LET amount == RMul(category.amount, scaling_factor)
            IN  [category EXCEPT !.amount = amount,
                                 !.percentage = RMul(RDiv(amount, max_reasonable), R(100))]
    IN  IF cap_applies(budget_data, s)
        THEN [budget_data EXCEPT
                !.categories = [c \in DOMAIN budget_data.categories |->
                                    scaled(budget_data.categories[c])],
                !.total_monthly_budget = max_reasonable,
                !.risk_warnings = Append(budget_data.risk_warnings, CapWarning)]
        ELSE budget_data

essentials == {"tuition_fee", "hostel_fee", "food"}

\* _validate_budget_recommendation, the essentials loop; `total` is the local
\* read from the dict before the capping block ran
enforce_essential_minimums(budget_data, total) ==
    LET raised(category) ==
            IF RLt(category.percentage, R(10))
            THEN [amount |-> RMul(total, Rat(1, 10)),
                  percentage |-> R(10),
                  rationale |-> Append(category.rationale, AdjustedNote)]
            ELSE category
    IN  [budget_data EXCEPT
            !.categories = [c \in DOMAIN budget_data.categories |->
                                IF c \in essentials
                                THEN raised(budget_data.categories[c])
                                ELSE budget_data.categories[c]]]

\* the final pass with the wrong divisor: the dict's total instead of the
\* sum of the amounts
recalculate_percentages_by_total(budget_data) ==
    LET total_amount == budget_data.total_monthly_budget
    IN  IF RLt(R(0), total_amount)
        THEN [budget_data EXCEPT
                !.categories = [c \in DOMAIN budget_data.categories |->
                    [budget_data.categories[c] EXCEPT
                        !.percentage = RMul(RDiv(budget_data.categories[c].amount,
                                                 total_amount), R(100))]]]
        ELSE budget_data

\* _validate_budget_recommendation, the final percentage pass
recalculate_percentages(budget_data) ==
    LET total_amount == sum_amounts(budget_data.categories)
    IN  IF RLt(R(0), total_amount)
        THEN [budget_data EXCEPT
                !.categories = [c \in DOMAIN budget_data.categories |->
                    [budget_data.categories[c] EXCEPT
                        !.percentage = RMul(RDiv(budget_data.categories[c].amount,
                                                 total_amount), R(100))]]]
        ELSE budget_data

validate_budget_recommendation(budget_data, s) ==
    recalculate_percentages(
        enforce_essential_minimums(apply_budget_cap(budget_data, s),
                                   budget_data.total_monthly_budget))

\* _parse_budget_response on a response text, by the form of the text:
\*   "prose"         no brace and no bracket: ValueError, re-raised
\*   "malformed"     braces around text that is not JSON: JSONDecodeError twice
\*   "array_empty"   "[]": ValueError, re-raised
\*   "array_scalar"  a JSON array of scalars, no brace: its first element
\*   "object", "object_illtyped"  a JSON object: the dict
parse_budget_response(text) ==
    CASE text.form \in {"prose", "malformed", "array_empty"} ->
            [raised |-> TRUE, type |-> "none", data |-> None]
      [] text.form = "array_scalar" ->
            [raised |-> FALSE, type |-> "scalar", data |-> None]
      [] text.form = "object" ->
            [raised |-> FALSE, type |-> "dict", data |-> text.data]
      [] text.form = "object_illtyped" ->
            [raised |-> FALSE, type |-> "dict_illtyped", data |-> text.data]

\* a handler that keeps what the AI said about its confidence when the
\* validation pass fails
budget_recommendation_outcome_blending(s, exps, response) ==
    LET rule == [source |-> "rule", budget |-> generate_rule_based_budget(s, exps)]
    IN  IF response.kind = "raise" THEN rule
        ELSE IF response.text.form = "empty" THEN rule
        ELSE LET parsed == parse_budget_response(response.text)
             IN  IF parsed.raised THEN rule
                 ELSE IF parsed.type = "dict_illtyped"
                      THEN [source |-> "rule",
                            budget |-> [rule.budget EXCEPT !.ai_confidence_score =
                                            parsed.data[1].ai_confidence_score]]
                 ELSE IF parsed.type # "dict" THEN rule
                 ELSE [source |-> "ai",
                       budget |-> validate_budget_recommendation(parsed.data[1], s)]

\* generate_budget_recommendation from the point where the awaited
\* generate_content call completes: the value returned and where it came from
budget_recommendation_outcome(s, exps, response) ==
    LET rule == [source |-> "rule", budget |-> generate_rule_based_budget(s, exps)]
    IN  IF response.kind = "raise" THEN rule
        ELSE IF response.text.form = "empty" THEN rule
        ELSE LET parsed == parse_budget_response(response.text)
             IN  IF parsed.raised THEN rule
                 \* .get on a scalar: AttributeError; str > float: TypeError
                 ELSE IF parsed.type # "dict" THEN rule
                 ELSE [source |-> "ai",
                       budget |-> validate_budget_recommendation(parsed.data[1], s)]

(***************************************************************************)
(* Input domains                                                           *)
(***************************************************************************)
Allowances == {None, Some(R(0)), Some(R(100))}
Incomes == {R(-1200), R(0), R(1200)}
Loans == {<<FALSE, None>>, <<TRUE, Some(R(-1200))>>,
          <<TRUE, Some(R(300))>>, <<TRUE, Some(R(600))>>, <<TRUE, Some(R(1200))>>}
Cgpas == {None, Some(R(0)), Some(Rat(55, 10)), Some(Rat(65, 10)), Some(R(8))}
Years == {1, 2, 4}

\* <<current_cgpa, current_year>>
AcademicProfiles == {<<c, 1>> : c \in Cgpas} \cup {<<None, y>> : y \in Years}

Students ==
    {[monthly_allowance |-> a, family_annual_income |-> i,
      has_education_loan |-> l[1], education_loan_amount |-> l[2],
      current_cgpa |-> p[1], current_year |-> p[2], city |-> "Mumbai"] :
        a \in Allowances, i \in Incomes, l \in Loans, p \in AcademicProfiles}

Budget(total, spent, status) ==
    [total_amount |-> R(total), spent_amount |-> R(spent), status |-> status]

BudgetLists == {<<>>,
                <<Budget(100, 85, "active")>>,
                <<Budget(100, 100, "active"), Budget(200, 20, "active"),
                  Budget(100, 10, "completed")>>}

\* "draft" stands for any status outside the two lists of the scorer
ApplicationLists == {<<>>, <<"rejected", "approved">>, <<"draft">>}

ExpenseAmounts == {R(76), R(6)}

(***************************************************************************)
(* Risk scoring specification                                              *)
(***************************************************************************)
InitRisk ==
    /\ student \in Students
    /\ expenses = <<>>
    /\ budgets \in BudgetLists
    /\ applications \in ApplicationLists
    /\ financial_stress_score = None
    /\ dropout_risk_score = None
    /\ initialized = FALSE
    /\ pc = "idle"
    /\ request_expenses = <<>>
    /\ ai_response = None
    /\ budget_result = None
    /\ ai_calls = 0
    /\ rule_calls = 0
    /\ rule_log = {}
    /\ BatchIdle
    /\ WorkersIdle
    /\ LedgerIdle
    /\ MatchIdle
    /\ LateIdle

\* the expense rows are a multiset; it is kept as a sequence in ascending order
InsertExpense(exps, amount) ==
    LET below == SelectSeq(exps, LAMBDA e : RLe(e, amount))
        above == SelectSeq(exps, LAMBDA e : ~RLe(e, amount))
    IN  below \o <<amount>> \o above

\* ExpenseService.create_expense without a budget link and dated today: one
\* more expense row inside the trailing 30 days
CreateExpense(amount) ==
    /\ Len(expenses) < MaxExpenses
    /\ expenses' = InsertExpense(expenses, amount)
    /\ UNCHANGED <<student, budgets, applications,
                   financial_stress_score, dropout_risk_score>>
    /\ UNCHANGED <<recVars, batchVars, workerVars, ledgerVars, matchVars, lateVars>>

\* what a NUMERIC(4, 2) column does with a value written to it: PostgreSQL
\* rounds it to two decimals and stores it if the result is below 100 in
\* absolute value; otherwise the statement fails with a numeric field
\* overflow (None here)
numeric_4_2(x) ==
    IF RLt(RAbs(Round2(x)), R(100)) THEN Some(Round2(x)) ELSE None

\* RiskService.update_student_risk_scores: when the commit fails the row
\* keeps what it had and the exception leaves the handler
UpdateStudentRiskScores ==
    /\ LET financial_stress ==
               numeric_4_2(calculate_financial_stress_score(student, expenses, budgets))
           dropout_risk ==
               numeric_4_2(calculate_dropout_risk_score(student, expenses, budgets,
                                                        applications))
       IN  IF financial_stress # None /\ dropout_risk # None
           THEN /\ financial_stress_score' = financial_stress
                /\ dropout_risk_score' = dropout_risk
           ELSE UNCHANGED <<financial_stress_score, dropout_risk_score>>
    /\ UNCHANGED <<student, expenses, budgets, applications>>
    /\ UNCHANGED <<recVars, batchVars, workerVars, ledgerVars, matchVars, lateVars>>

NextRisk ==
    \/ \E amount \in ExpenseAmounts : CreateExpense(amount)
    \/ UpdateStudentRiskScores

SpecRisk == InitRisk /\ [][NextRisk]_vars

(***************************************************************************)
(* Budget recommendation specification                                     *)
(***************************************************************************)
BudgetStudents ==
    {[monthly_allowance |-> a, family_annual_income |-> i,
      has_education_loan |-> FALSE, education_loan_amount |-> None,
      current_cgpa |-> None, current_year |-> 1, city |-> c] :
        a \in {None, Some(R(0)), Some(R(1000)), Some(Rat(500004, 100))},
        i \in {R(0), R(12000)},
        c \in {"Mumbai", "kanpur", "BANGALORE", "shimla"}}
    \cup
    {[monthly_allowance |-> None, family_annual_income |-> ic[1],
      has_education_loan |-> FALSE, education_loan_amount |-> None,
      current_cgpa |-> None, current_year |-> 1, city |-> ic[2]] :
        ic \in {<<R(600000), "mumbai">>, <<R(-12000), "kanpur">>}}

ExpenseArgs == {<<>>, <<R(50), R(70)>>}

Category(amount, percentage) ==
    [amount |-> R(amount), percentage |-> R(percentage), rationale |-> <<"ai">>]

AiTuition == {Category(400, 40), Category(50, 5), Category(0, 40), Category(120, 5)}
AiFood == {None, Some(Category(300, 30)), Some(Category(0, 30))}
AiTransport == {Category(300, 30), Category(0, 5)}
AiTotals == {R(0), R(1000), R(2400)}

AiBudgets ==
    {[total_monthly_budget |-> t,
      categories |-> IF f = None
                     THEN [c \in {"tuition_fee", "transport"} |->
                              IF c = "tuition_fee" THEN tu ELSE tr]
                     ELSE [c \in {"tuition_fee", "food", "transport"} |->
                              IF c = "tuition_fee" THEN tu
                              ELSE IF c = "food" THEN f[1] ELSE tr],
      ai_confidence_score |-> Rat(9, 10),
      key_recommendations |-> <<"ai recommendation">>,
      risk_warnings |-> <<"ai warning">>] :
        t \in AiTotals, tu \in AiTuition, f \in AiFood, tr \in AiTransport}

AiResponses ==
    {[kind |-> "raise", text |-> [form |-> "none", data |-> None]]}
    \cup {[kind |-> "text", text |-> [form |-> f, data |-> None]] :
            f \in {"empty", "prose", "malformed", "array_empty", "array_scalar"}}
    \cup {[kind |-> "text", text |-> [form |-> "object", data |-> Some(b)]] :
            b \in AiBudgets}
    \cup {[kind |-> "text", text |-> [form |-> "object_illtyped", data |-> Some(b)]] :
            b \in {a \in AiBudgets : sum_amounts(a.categories) = a.total_monthly_budget}}

InitBudget ==
    /\ student \in BudgetStudents
    /\ expenses = <<>>
    /\ budgets = <<>>
    /\ applications = <<>>
    /\ financial_stress_score = None
    /\ dropout_risk_score = None
    /\ initialized \in BOOLEAN
    /\ pc = "idle"
    /\ request_expenses = <<>>
    /\ ai_response = None
    /\ budget_result = None
    /\ ai_calls = 0
    /\ rule_calls = 0
    /\ rule_log = {}
    /\ BatchIdle
    /\ WorkersIdle
    /\ LedgerIdle
    /\ MatchIdle
    /\ LateIdle

\* generate_budget_recommendation up to the await: the prompt is built, then
\* either the rule-based budget is returned at once (client not initialised)
\* or generate_content is called
GenerateBudgetStart(exps) ==
    /\ pc = "idle"
    /\ request_expenses' = exps
    /\ IF ~initialized
       THEN LET rule == generate_rule_based_budget(student, exps)
            IN  /\ budget_result' = Some(rule)
                /\ rule_calls' = rule_calls + 1
                /\ rule_log' = rule_log \cup {[expenses |-> exps, budget |-> rule]}
                /\ ai_calls' = ai_calls
                /\ pc' = "done"
       ELSE /\ ai_calls' = ai_calls + 1
            /\ pc' = "awaiting"
            /\ UNCHANGED <<budget_result, rule_calls, rule_log>>
    /\ UNCHANGED <<student, initialized, ai_response>>
    /\ UNCHANGED <<riskVars, batchVars, workerVars, ledgerVars, matchVars, lateVars>>

\* a handler that calls the model again after a failure
AiCompletesRetrying(response) ==
    /\ pc = "awaiting"
    /\ ai_response' = Some(response)
    /\ LET outcome == budget_recommendation_outcome(student, request_expenses, response)
       IN  IF outcome.source = "rule"
           THEN /\ ai_calls' = ai_calls + 1
                /\ pc' = "awaiting"
                /\ UNCHANGED <<budget_result, rule_calls, rule_log>>
           ELSE /\ budget_result' = Some(outcome.budget)
                /\ pc' = "done"
                /\ UNCHANGED <<ai_calls, rule_calls, rule_log>>
    /\ UNCHANGED <<student, initialized, request_expenses>>
    /\ UNCHANGED <<riskVars, batchVars, workerVars, ledgerVars, matchVars, lateVars>>

\* generate_budget_recommendation from the completion of the awaited call to
\* the return: empty-text check, parse, validation, or the except branch
AiCompletes(response) ==
    /\ pc = "awaiting"
    /\ ai_response' = Some(response)
    /\ LET outcome == budget_recommendation_outcome(student, request_expenses, response)
       IN  /\ budget_result' = Some(outcome.budget)
           /\ IF outcome.source = "rule"
              THEN /\ rule_calls' = rule_calls + 1
                   /\ rule_log' = rule_log \cup {[expenses |-> request_expenses,
                                                  budget |-> outcome.budget]}
              ELSE UNCHANGED <<rule_calls, rule_log>>
    /\ pc' = "done"
    /\ UNCHANGED <<student, initialized, request_expenses, ai_calls>>
    /\ UNCHANGED <<riskVars, batchVars, workerVars, ledgerVars, matchVars, lateVars>>

\* the caller has the returned dict; the next request starts afresh
NextRequest ==
    /\ pc = "done"
    /\ pc' = "idle"
    /\ request_expenses' = <<>>
    /\ ai_response' = None
    /\ budget_result' = None
    /\ ai_calls' = 0
    /\ rule_calls' = 0
    /\ UNCHANGED <<student, initialized, rule_log>>
    /\ UNCHANGED <<riskVars, batchVars, workerVars, ledgerVars, matchVars, lateVars>>

NextBudget ==
    \/ \E exps \in ExpenseArgs : GenerateBudgetStart(exps)
    \/ \E response \in AiResponses : AiCompletes(response)
    \/ NextRequest

SpecBudget == InitBudget /\ [][NextBudget]_vars

\* The event loop resumes every coroutine that can run, so a finished request
\* is handed back to its caller.  Nothing in the code bounds the awaited
\* generate_content call (asyncio.to_thread without wait_for): the step that
\* ends the wait happens only when the collaborator answers or fails, which
\* no scheduling guarantees, so it carries no fairness.
SpecBudgetLive ==
    /\ SpecBudget
    /\ WF_vars(NextRequest)

(***************************************************************************)
(* Batch operations over all students                                      *)
(***************************************************************************)
MaxBatch == 2

\* round(x, 1)
Round1(x) == Rat(RoundHalfEven(x.n * 10, x.d), 10)

RiskIdle ==
    /\ expenses = <<>>
    /\ budgets = <<>>
    /\ applications = <<>>
    /\ financial_stress_score = None
    /\ dropout_risk_score = None

RecIdle ==
    /\ initialized = FALSE
    /\ pc = "idle"
    /\ request_expenses = <<>>
    /\ ai_response = None
    /\ budget_result = None
    /\ ai_calls = 0
    /\ rule_calls = 0
    /\ rule_log = {}

BatchStudent(income, loan) ==
    [monthly_allowance |-> None, family_annual_income |-> R(income),
     has_education_loan |-> loan # 0,
     education_loan_amount |-> IF loan = 0 THEN None ELSE Some(R(loan)),
     current_cgpa |-> None, current_year |-> 1, city |-> "Mumbai"]

\* a selected Student row with its expenses of the last 30 days; `raises`
\* says whether a statement inside the loop's try block raises for it (the
\* row vanished since the select, a query failed, a relationship is missing)
BatchRows ==
    {[profile |-> c[1], expenses |-> c[2], raises |-> r] :
        c \in {<<BatchStudent(1200, 0), <<>>>>,
               <<BatchStudent(1200, 1200), <<R(100)>>>>,
               <<BatchStudent(0, 0), <<>>>>},
        r \in BOOLEAN}

BatchLists == UNION {[1..n -> BatchRows] : n \in 0..MaxBatch}

BatchThresholds == {R(0), R(70)}

BatchLimits == {1, 100}

stress_of_row(row) == calculate_financial_stress_score(row.profile, row.expenses, <<>>)

dropout_of_row(row) ==
    calculate_dropout_risk_score(row.profile, row.expenses, <<>>, <<>>)

\* the loop of get_at_risk_students over students[:limit]: the entries
\* appended, in the order of the rows
RECURSIVE at_risk_entries(_, _, _)
at_risk_entries(students, threshold, k) ==
    IF k = 0 THEN <<>>
    ELSE LET before == at_risk_entries(students, threshold, k - 1)
             row == students[k]
         IN  IF row.raises THEN before
             ELSE IF RLe(threshold, stress_of_row(row))
             THEN Append(before,
                         [student_id |-> k,
                          financial_stress_score |-> Round1(stress_of_row(row)),
                          dropout_risk_score |-> Round1(dropout_of_row(row))])
             ELSE before

\* list.sort(key=financial_stress_score, reverse=True): stable
RECURSIVE sort_by_stress(_)
sort_by_stress(entries) ==
    IF entries = <<>> THEN <<>>
    ELSE LET n == Len(entries)
             last == entries[n]
             sorted == sort_by_stress(SubSeq(entries, 1, n - 1))
             ahead == SelectSeq(sorted, LAMBDA e :
                          RLe(last.financial_stress_score, e.financial_stress_score))
             behind == SelectSeq(sorted, LAMBDA e :
                          RLt(e.financial_stress_score, last.financial_stress_score))
         IN  ahead \o <<last>> \o behind

get_at_risk_students(students, threshold, limit) ==
    LET considered == IF limit < Len(students) THEN limit ELSE Len(students)
    IN  sort_by_stress(at_risk_entries(students, threshold, considered))

\* the loop of recalculate_all_risk_scores: the rows whose
\* update_student_risk_scores call returned
updated_students(students) == {k \in 1..Len(students) : ~students[k].raises}

\* recalculate_all_risk_scores takes `db = get_db()`, awaits db.__anext__()
\* for the session of the service and then awaits db.execute(select(Student))
\* on the same object
has_anext(kind) == kind = "async_generator"

has_execute(kind) == kind = "session"

recalculate_all_risk_scores(students, kind) ==
    IF has_anext(kind) /\ has_execute(kind)
    THEN [op |-> "recalculate_all_risk_scores", status |-> "ok",
          total_students |-> Len(students),
          updated_count |-> Cardinality(updated_students(students))]
    ELSE [op |-> "recalculate_all_risk_scores", status |-> "http_500"]

InitBatch ==
    /\ student = None
    /\ RiskIdle
    /\ RecIdle
    /\ batch_students \in BatchLists
    /\ batch_args \in {[threshold |-> t, limit |-> l] :
                          t \in BatchThresholds, l \in BatchLimits}
    /\ get_db_kind \in {"async_generator", "session"}
    /\ batch_result = None
    /\ WorkersIdle
    /\ LedgerIdle
    /\ MatchIdle
    /\ LateIdle

GetAtRiskStudents ==
    /\ batch_result = None
    /\ batch_result' =
           Some([op |-> "get_at_risk_students", status |-> "ok",
                 value |-> get_at_risk_students(batch_students, batch_args.threshold,
                                                batch_args.limit)])
    /\ UNCHANGED <<batch_students, batch_args, get_db_kind>>
    /\ UNCHANGED <<student, riskVars, recVars, workerVars, ledgerVars, matchVars, lateVars>>

RecalculateAllRiskScores ==
    /\ batch_result = None
    /\ batch_result' = Some(recalculate_all_risk_scores(batch_students, get_db_kind))
    /\ UNCHANGED <<batch_students, batch_args, get_db_kind>>
    /\ UNCHANGED <<student, riskVars, recVars, workerVars, ledgerVars, matchVars, lateVars>>

\* the caller has the answer; the next batch request may start
BatchReturned ==
    /\ batch_result # None
    /\ batch_result' = None
    /\ UNCHANGED <<batch_students, batch_args, get_db_kind>>
    /\ UNCHANGED <<student, riskVars, recVars, workerVars, ledgerVars, matchVars, lateVars>>

NextBatch ==
    \/ GetAtRiskStudents
    \/ RecalculateAllRiskScores
    \/ BatchReturned

SpecBatch == InitBatch /\ [][NextBatch]_vars

(***************************************************************************)
(* Concurrent update_student_risk_scores calls for one student             *)
(***************************************************************************)
MaxCalls == 2

\* the requests that recompute the snapshot of the same student, each with
\* its own database session
Procs == {1, 2}

\* `calls` counts the calls that ended, `committed` those that ended with a
\* successful commit
IdleWorker == [pc |-> "idle", financial_stress |-> None, dropout_risk |-> None,
               calls |-> 0, committed |-> 0]

ConcurrentStudents ==
    {BatchStudent(1200, 0), BatchStudent(1200, 300), BatchStudent(1200, 1200),
     BatchStudent(0, 0)}

InitConcurrent ==
    /\ student \in ConcurrentStudents
    /\ expenses \in {<<>>, <<R(76)>>, <<R(76), R(76)>>}
    /\ budgets \in {<<>>, <<Budget(100, 85, "active")>>, <<Budget(100, 0, "active")>>}
    /\ applications \in {<<>>, <<"rejected", "approved">>}
    /\ financial_stress_score = None
    /\ dropout_risk_score = None
    /\ RecIdle
    /\ BatchIdle
    /\ workers = [p \in Procs |-> IdleWorker]
    /\ LedgerIdle
    /\ MatchIdle
    /\ LateIdle

\* update_student_risk_scores up to its first await: the student is selected
BeginUpdate(p) ==
    /\ workers[p].pc = "idle"
    /\ workers[p].calls < MaxCalls
    /\ workers' = [workers EXCEPT ![p].pc = "selected"]
    /\ UNCHANGED <<student, riskVars, recVars, batchVars, ledgerVars, matchVars, lateVars>>

\* financial_stress = await self.calculate_financial_stress_score(student_id)
ScoreStress(p) ==
    /\ workers[p].pc = "selected"
    /\ workers' = [workers EXCEPT
           ![p].pc = "stress_scored",
           ![p].financial_stress =
               Some(calculate_financial_stress_score(student, expenses, budgets))]
    /\ UNCHANGED <<student, riskVars, recVars, batchVars, ledgerVars, matchVars, lateVars>>

\* dropout_risk = await self.calculate_dropout_risk_score(student_id)
ScoreDropout(p) ==
    /\ workers[p].pc = "stress_scored"
    /\ workers' = [workers EXCEPT
           ![p].pc = "scored",
           ![p].dropout_risk =
               Some(calculate_dropout_risk_score(student, expenses, budgets,
                                                 applications))]
    /\ UNCHANGED <<student, riskVars, recVars, batchVars, ledgerVars, matchVars, lateVars>>

\* the two assignments, commit and refresh: the row takes this call's
\* values, or the commit fails and the row keeps what it had
CommitScores(p) ==
    /\ workers[p].pc = "scored"
    /\ LET financial_stress == numeric_4_2(workers[p].financial_stress[1])
           dropout_risk == numeric_4_2(workers[p].dropout_risk[1])
           stored == financial_stress # None /\ dropout_risk # None
       IN  /\ IF stored
              THEN /\ financial_stress_score' = financial_stress
                   /\ dropout_risk_score' = dropout_risk
              ELSE UNCHANGED <<financial_stress_score, dropout_risk_score>>
           /\ workers' = [workers EXCEPT ![p] =
                  [IdleWorker EXCEPT
                      !.calls = workers[p].calls + 1,
                      !.committed = workers[p].committed + (IF stored THEN 1 ELSE 0)]]
    /\ UNCHANGED <<student, expenses, budgets, applications>>
    /\ UNCHANGED <<recVars, batchVars, ledgerVars, matchVars, lateVars>>

NextConcurrent ==
    \E p \in Procs :
        \/ BeginUpdate(p)
        \/ ScoreStress(p)
        \/ ScoreDropout(p)
        \/ CommitScores(p)

SpecConcurrent == InitConcurrent /\ [][NextConcurrent]_vars

(***************************************************************************)
(* Budgets and the expenses booked against them                            *)
(***************************************************************************)
MaxBudgets == 2

MaxLedgerExpenses == 2

\* BudgetCreate.total_amount (gt=0) and the expense amounts of the requests
LedgerTotals == {R(100)}

LedgerAmounts == {R(40), R(60)}

\* the budget periods of the requests: two periods overlap iff they are
\* equal; the requests here are all for the same month
LedgerPeriods == {1}

\* the CHECK constraints of the budgets table, evaluated at commit
budget_constraints(b) ==
    /\ RLt(R(0), b.total_amount)
    /\ RLe(b.spent_amount, b.total_amount)
    /\ b.remaining_amount = RSub(b.total_amount, b.spent_amount)

\* a booking that moves spent_amount alone and is not checked
book_spending_only(b, spent) == [b EXCEPT !.spent_amount = spent]

\* budget.spent_amount = ...; budget.remaining_amount = budget.total_amount -
\* budget.spent_amount; commit.  A row that breaks a CHECK constraint is
\* rejected: the commit raises and the stored row stays as it was
book_spending(b, spent) ==
    LET updated == [b EXCEPT !.spent_amount = spent,
                             !.remaining_amount = RSub(b.total_amount, spent)]
    IN  IF budget_constraints(updated) THEN updated ELSE b

\* select(func.coalesce(func.sum(Expense.amount), 0)) over the budget's expenses
RECURSIVE spent_on(_, _)
spent_on(rows, budget_id) ==
    IF rows = <<>> THEN R(0)
    ELSE RAdd(IF Head(rows).budget_id = budget_id THEN Head(rows).amount ELSE R(0),
              spent_on(Tail(rows), budget_id))

RemoveAt(rows, i) == SubSeq(rows, 1, i - 1) \o SubSeq(rows, i + 1, Len(rows))

\* the expenses table is a multiset of rows; it is kept as a sequence ordered
\* by budget and amount
InsertRow(rows, e) ==
    LET before(x) == \/ x.budget_id < e.budget_id
                     \/ (x.budget_id = e.budget_id /\ RLe(x.amount, e.amount))
    IN  SelectSeq(rows, before) \o <<e>> \o SelectSeq(rows, LAMBDA x : ~before(x))

InitLedger ==
    /\ student = None
    /\ RiskIdle
    /\ RecIdle
    /\ BatchIdle
    /\ WorkersIdle
    /\ budget_rows = <<>>
    /\ expense_rows = <<>>
    /\ MatchIdle
    /\ LateIdle

\* BudgetService.create_budget: refused when an active budget of the student
\* overlaps the period
CreateBudget(total, period) ==
    /\ Len(budget_rows) < MaxBudgets
    /\ ~\E k \in 1..Len(budget_rows) :
           budget_rows[k].status = "active" /\ budget_rows[k].period = period
    /\ LET budget == [total_amount |-> total, spent_amount |-> R(0),
                      remaining_amount |-> total, status |-> "active",
                      period |-> period]
       IN  /\ budget_constraints(budget)
           /\ budget_rows' = Append(budget_rows, budget)
    /\ UNCHANGED expense_rows
    /\ UNCHANGED <<student, riskVars, recVars, batchVars, workerVars, matchVars, lateVars>>

\* BudgetService.delete_budget: the budget is marked cancelled
DeleteBudget(k) ==
    /\ k \in 1..Len(budget_rows)
    /\ budget_rows' = [budget_rows EXCEPT ![k].status = "cancelled"]
    /\ UNCHANGED expense_rows
    /\ UNCHANGED <<student, riskVars, recVars, batchVars, workerVars, matchVars, lateVars>>

\* ExpenseService.create_expense with budget_id k (0: no budget): refused for
\* a budget that does not exist or is not active; the expense is committed
\* first, the budget's spending in a second commit
CreateLedgerExpense(amount, k) ==
    /\ Len(expense_rows) < MaxLedgerExpenses
    /\ k # 0 => (k \in 1..Len(budget_rows) /\ budget_rows[k].status = "active")
    /\ expense_rows' = InsertRow(expense_rows, [amount |-> amount, budget_id |-> k])
    /\ budget_rows' =
           IF k = 0 THEN budget_rows
           ELSE [budget_rows EXCEPT ![k] =
                    book_spending(@, RAdd(@.spent_amount, amount))]
    /\ UNCHANGED <<student, riskVars, recVars, batchVars, workerVars, matchVars, lateVars>>

\* ExpenseService.update_expense with a new amount
UpdateExpense(i, new_amount) ==
    /\ i \in 1..Len(expense_rows)
    /\ LET old_amount == expense_rows[i].amount
           k == expense_rows[i].budget_id
           amount_diff == RSub(new_amount, old_amount)
       IN  /\ expense_rows' = InsertRow(RemoveAt(expense_rows, i),
                                        [amount |-> new_amount, budget_id |-> k])
           /\ budget_rows' =
                  IF k = 0 THEN budget_rows
                  ELSE [budget_rows EXCEPT ![k] =
                           book_spending(@, RAdd(@.spent_amount, amount_diff))]
    /\ UNCHANGED <<student, riskVars, recVars, batchVars, workerVars, matchVars, lateVars>>

\* ExpenseService.delete_expense
DeleteExpense(i) ==
    /\ i \in 1..Len(expense_rows)
    /\ LET amount == expense_rows[i].amount
           k == expense_rows[i].budget_id
       IN  /\ expense_rows' = RemoveAt(expense_rows, i)
           /\ budget_rows' =
                  IF k = 0 THEN budget_rows
                  ELSE [budget_rows EXCEPT ![k] =
                           book_spending(@, RSub(@.spent_amount, amount))]
    /\ UNCHANGED <<student, riskVars, recVars, batchVars, workerVars, matchVars, lateVars>>

\* BudgetService.update_budget_spending: spent_amount is recomputed from the
\* budget's expenses and the status follows; one commit for both
UpdateBudgetSpending(k) ==
    /\ k \in 1..Len(budget_rows)
    /\ LET total_spent == spent_on(expense_rows, k)
           booked == book_spending(budget_rows[k], total_spent)
           exceeded == RLe(budget_rows[k].total_amount, total_spent)
       IN  budget_rows' =
               [budget_rows EXCEPT ![k] =
                   IF booked.spent_amount = total_spent /\ exceeded
                   THEN [booked EXCEPT !.status = "exceeded"]
                   ELSE booked]
    /\ UNCHANGED expense_rows
    /\ UNCHANGED <<student, riskVars, recVars, batchVars, workerVars, matchVars, lateVars>>

NextLedger ==
    \/ \E total \in LedgerTotals, period \in LedgerPeriods : CreateBudget(total, period)
    \/ \E k \in 1..MaxBudgets : DeleteBudget(k)
    \/ \E amount \in LedgerAmounts, k \in 0..MaxBudgets : CreateLedgerExpense(amount, k)
    \/ \E i \in 1..MaxLedgerExpenses, amount \in LedgerAmounts : UpdateExpense(i, amount)
    \/ \E i \in 1..MaxLedgerExpenses : DeleteExpense(i)
    \/ \E k \in 1..MaxBudgets : UpdateBudgetSpending(k)

SpecLedger == InitLedger /\ [][NextLedger]_vars

(***************************************************************************)
(* ScholarshipService: eligibility and matching                            *)
(***************************************************************************)
MaxScholarships == 3

\* score = 1.0 minus a penalty per failed check (0.3, 0.3, 0.2, 0.1, 0.2,
\* 0.1, 0.3, 0.3, counted in tenths), then max(0.0, min(1.0, score)); an
\* absent or empty list and an absent or zero number switch a check off
calculate_eligibility_score_no_income_ceiling(s, sch) ==
    LET below_min_income == Truthy(sch.min_income)
                                /\ RLt(s.family_annual_income, sch.min_income[1])
        caste == sch.eligible_castes # {} /\ s.caste_category \notin sch.eligible_castes
        gender == sch.eligible_genders # {} /\ s.gender \notin sch.eligible_genders
        course == sch.eligible_courses # {} /\ s.course_name \notin sch.eligible_courses
        state == sch.eligible_states # {} /\ s.state \notin sch.eligible_states
        percentage == Truthy(sch.min_percentage) /\ Truthy(s.last_semester_percentage)
                          /\ RLt(s.last_semester_percentage[1], sch.min_percentage[1])
        cgpa == Truthy(sch.min_cgpa) /\ Truthy(s.current_cgpa)
                    /\ RLt(s.current_cgpa[1], sch.min_cgpa[1])
        tenths == 10 - (IF below_min_income THEN 3 ELSE 0)
                    - (IF caste THEN 2 ELSE 0) - (IF gender THEN 1 ELSE 0)
                    - (IF course THEN 2 ELSE 0) - (IF state THEN 1 ELSE 0)
                    - (IF percentage THEN 3 ELSE 0) - (IF cgpa THEN 3 ELSE 0)
    IN  Rat(IF tenths < 0 THEN 0 ELSE IF tenths > 10 THEN 10 ELSE tenths, 10)

calculate_eligibility_score(s, sch) ==
    LET below_min_income == Truthy(sch.min_income)
                                /\ RLt(s.family_annual_income, sch.min_income[1])
        above_max_income == Truthy(sch.max_income)
                                /\ RLt(sch.max_income[1], s.family_annual_income)
        caste == sch.eligible_castes # {} /\ s.caste_category \notin sch.eligible_castes
        gender == sch.eligible_genders # {} /\ s.gender \notin sch.eligible_genders
        course == sch.eligible_courses # {} /\ s.course_name \notin sch.eligible_courses
        state == sch.eligible_states # {} /\ s.state \notin sch.eligible_states
        percentage == Truthy(sch.min_percentage) /\ Truthy(s.last_semester_percentage)
                          /\ RLt(s.last_semester_percentage[1], sch.min_percentage[1])
        cgpa == Truthy(sch.min_cgpa) /\ Truthy(s.current_cgpa)
                    /\ RLt(s.current_cgpa[1], sch.min_cgpa[1])
        tenths == 10 - (IF below_min_income THEN 3 ELSE 0)
                    - (IF above_max_income THEN 3 ELSE 0)
                    - (IF caste THEN 2 ELSE 0) - (IF gender THEN 1 ELSE 0)
                    - (IF course THEN 2 ELSE 0) - (IF state THEN 1 ELSE 0)
                    - (IF percentage THEN 3 ELSE 0) - (IF cgpa THEN 3 ELSE 0)
    IN  Rat(IF tenths < 0 THEN 0 ELSE IF tenths > 10 THEN 10 ELSE tenths, 10)

\* family_annual_income is a Decimal. A float amount cannot be divided by it;
\* min(1.0, ratio * 10) is the float 1.0 when ratio * 10 >= 1 and the Decimal
\* ratio * 10 when it is smaller; 0.5 when the amount or the income is falsy
calculate_financial_need_factor(s, sch, ty) ==
    IF Truthy(sch.amount) /\ s.family_annual_income.n # 0
    THEN IF ty = "float"
         THEN [type |-> "TypeError", value |-> R(0)]
         ELSE LET ratio == RDiv(sch.amount[1], s.family_annual_income)
              IN  IF RLe(R(1), RMul(ratio, R(10)))
                  THEN [type |-> "float", value |-> R(1)]
                  ELSE [type |-> "Decimal", value |-> RMul(ratio, R(10))]
    ELSE [type |-> "float", value |-> Rat(5, 10)]

\* days_left = (application_end_date - date.today()).days
calculate_urgency_factor(sch) ==
    IF sch.days_left <= 7 THEN R(1)
    ELSE IF sch.days_left <= 14 THEN Rat(7, 10)
    ELSE IF sch.days_left <= 30 THEN Rat(4, 10)
    ELSE Rat(1, 10)

\* min(1.0, sum of the four weighted factors); the need factor times the
\* float 0.2 raises TypeError when the factor is a Decimal: None
calculate_match_score(s, sch, ty) ==
    LET financial_need == calculate_financial_need_factor(s, sch, ty)
        total_score ==
            RSum(<<RMul(calculate_eligibility_score(s, sch), Rat(6, 10)),
                   RMul(financial_need.value, Rat(2, 10)),
                   RMul(calculate_urgency_factor(sch), Rat(1, 10)),
                   RMul(sch.popularity_score, Rat(1, 10))>>)
    IN  IF financial_need.type # "float" THEN None
        ELSE Some(RMin(R(1), total_score))

\* the loop of match_scholarships_for_student over the first k scholarships:
\* the matches appended, in the order of the scholarships; None when a score
\* raised
RECURSIVE matches_upto(_, _, _, _)
matches_upto(s, schs, k, ty) ==
    IF k = 0 THEN Some(<<>>)
    ELSE LET before == matches_upto(s, schs, k - 1, ty)
             match_score == calculate_match_score(s, schs[k], ty)
         IN  IF before = None \/ match_score = None THEN None
             ELSE IF RLe(Rat(5, 10), match_score[1])
             THEN Some(Append(before[1],
                              [scholarship |-> k,
                               match_score |-> match_score[1],
                               eligibility_score |-> calculate_eligibility_score(s, schs[k]),
                               deadline_days |-> schs[k].days_left]))
             ELSE before

\* matches.sort(key=match_score, reverse=True): stable
RECURSIVE sort_by_match_score(_)
sort_by_match_score(matches) ==
    IF matches = <<>> THEN <<>>
    ELSE LET n == Len(matches)
             last == matches[n]
             sorted == sort_by_match_score(SubSeq(matches, 1, n - 1))
             ahead == SelectSeq(sorted, LAMBDA m : RLe(last.match_score, m.match_score))
             behind == SelectSeq(sorted, LAMBDA m : RLt(m.match_score, last.match_score))
         IN  ahead \o <<last>> \o behind

\* the sorted matches cut to `limit`, or the TypeError of a score
match_scholarships_for_student(s, schs, limit, ty) ==
    LET found == matches_upto(s, schs, Len(schs), ty)
    IN  IF found = None
        THEN [status |-> "TypeError", matches |-> <<>>]
        ELSE LET matches == sort_by_match_score(found[1])
             IN  [status |-> "ok",
                  matches |-> SubSeq(matches, 1, IF limit < Len(matches) THEN limit
                                                 ELSE Len(matches))]

MatchStudent(income, caste, gender, course, state, cgpa, percentage) ==
    [family_annual_income |-> R(income), caste_category |-> caste, gender |-> gender,
     course_name |-> course, state |-> state, current_cgpa |-> cgpa,
     last_semester_percentage |-> percentage]

MatchStudents ==
    {MatchStudent(800000, "general", "male", "B.Tech", "Kerala", Some(R(7)), Some(R(70))),
     MatchStudent(300000, "sc", "female", "B.Tech", "Kerala", Some(R(9)), Some(R(80))),
     MatchStudent(0, "obc", "male", "MBBS", "Bihar", None, None),
     MatchStudent(-120000, "general", "female", "MBBS", "Bihar", Some(R(0)), Some(R(0)))}

Scholarship(min_income, max_income, castes, genders, courses, states, min_percentage, min_cgpa, amount, days_left, popularity_score) ==
    [min_income |-> min_income, max_income |-> max_income,
     eligible_castes |-> castes, eligible_genders |-> genders,
     eligible_courses |-> courses, eligible_states |-> states,
     min_percentage |-> min_percentage, min_cgpa |-> min_cgpa,
     amount |-> amount, days_left |-> days_left, popularity_score |-> popularity_score]

\* the rows get_all_scholarships hands to the matcher
ScholarshipRows ==
    {Scholarship(None, None, {}, {}, {}, {}, None, None, Some(R(50000)), 5, R(1)),
     Scholarship(Some(R(0)), Some(R(500000)), {}, {}, {}, {}, None, None,
                 Some(R(100000)), 20, Rat(5, 10)),
     Scholarship(None, Some(R(500000)), {"sc"}, {"female"}, {"B.Tech"}, {"Kerala"},
                 Some(R(75)), Some(R(8)), None, 40, R(0)),
     Scholarship(Some(R(400000)), None, {}, {}, {}, {"Kerala"}, None, None,
                 Some(R(10000)), 10, Rat(5, 10)),
     Scholarship(None, None, {}, {"female"}, {"MBBS"}, {}, None, Some(R(8)),
                 Some(R(20000)), 3, Rat(2, 10))}

ScholarshipLists == UNION {[1..n -> ScholarshipRows] : n \in 0..MaxScholarships}

MatchLimits == {1, 20}

\* Scholarship.amount is a Numeric column (a Decimal, as the amounts of the
\* other tables) or a Float column (a float, as in the schema)
AmountTypes == {"Decimal", "float"}

InitMatch ==
    /\ student \in MatchStudents
    /\ RiskIdle
    /\ RecIdle
    /\ BatchIdle
    /\ WorkersIdle
    /\ LedgerIdle
    /\ LateIdle
    /\ scholarships \in ScholarshipLists
    /\ match_limit \in MatchLimits
    /\ amount_type \in AmountTypes
    /\ match_result = None

MatchScholarshipsForStudent ==
    /\ match_result = None
    /\ match_result' = Some(match_scholarships_for_student(student, scholarships,
                                                           match_limit, amount_type))
    /\ UNCHANGED <<scholarships, match_limit, amount_type>>
    /\ UNCHANGED <<student, riskVars, recVars, batchVars, workerVars, ledgerVars, lateVars>>

\* the caller has the list; the next request may start
MatchReturned ==
    /\ match_result # None
    /\ match_result' = None
    /\ UNCHANGED <<scholarships, match_limit, amount_type>>
    /\ UNCHANGED <<student, riskVars, recVars, batchVars, workerVars, ledgerVars, lateVars>>

NextMatch ==
    \/ MatchScholarshipsForStudent
    \/ MatchReturned

SpecMatch == InitMatch /\ [][NextMatch]_vars

(***************************************************************************)
(* RiskService.get_risk_assessment                                         *)
(***************************************************************************)
\* _calculate_debt_burden: the loan as a percentage of the annual income
calculate_debt_burden(s) ==
    IF s.has_education_loan /\ Truthy(s.education_loan_amount)
       /\ RLt(R(0), s.family_annual_income)
    THEN RMin(RMul(RDiv(s.education_loan_amount[1], s.family_annual_income), R(100)),
              R(100))
    ELSE R(0)

StressRecommendations ==
    <<"High financial stress detected. Consider applying for emergency scholarships.",
      "Review and reduce discretionary spending.">>

DropoutRecommendations ==
    <<"Elevated dropout risk. Speak with college financial aid office.",
      "Explore part-time work opportunities on campus.">>

DebtRecommendations == <<"High debt burden. Consider loan restructuring options.">>

ComplianceRecommendations ==
    <<"Poor budget compliance. Set up spending alerts and track expenses daily.">>

\* the generic line that is added when the list is still empty
generic_recommendation(financial_stress) ==
    IF RLt(financial_stress, R(30))
    THEN <<"Financial health is good. Consider building an emergency fund.">>
    ELSE <<"Monitor expenses and explore scholarship opportunities.">>

\* a list that leaves out the debt rule
rule_recommendations_without_debt(s, exps, bs, apps) ==
    (IF RLt(R(70), calculate_financial_stress_score(s, exps, bs))
     THEN StressRecommendations ELSE <<>>)
    \o (IF RLt(R(60), calculate_dropout_risk_score(s, exps, bs, apps))
        THEN DropoutRecommendations ELSE <<>>)
    \o (IF RLt(R(70), calculate_budget_compliance_score(bs))
        THEN ComplianceRecommendations ELSE <<>>)

\* the threshold rules of get_risk_assessment, in the order of the code
rule_recommendations(s, exps, bs, apps) ==
    (IF RLt(R(70), calculate_financial_stress_score(s, exps, bs))
     THEN StressRecommendations ELSE <<>>)
    \o (IF RLt(R(60), calculate_dropout_risk_score(s, exps, bs, apps))
        THEN DropoutRecommendations ELSE <<>>)
    \o (IF RLt(R(50), calculate_debt_burden(s)) THEN DebtRecommendations ELSE <<>>)
    \o (IF RLt(R(70), calculate_budget_compliance_score(bs))
        THEN ComplianceRecommendations ELSE <<>>)

\* "interventions" of _generate_rule_based_stress_analysis
RuleBasedInterventions ==
    <<"Create a detailed budget and track expenses",
      "Apply for need-based scholarships",
      "Explore on-campus work opportunities",
      "Discuss payment plans for upcoming fees">>

\* "interventions" of the default dict of _parse_stress_response
DefaultInterventions ==
    <<"Monitor expenses closely",
      "Explore scholarship opportunities",
      "Consider part-time work if schedule permits">>

\* the "interventions" entry of a JSON object: absent, a list of strings, or
\* a value list.extend() cannot iterate (a number, null)
Interventions(type, items) == [type |-> type, items |-> items]

\* what the generate_content call of the stress analysis can end in: the
\* client is not initialised, the call raises, the text is empty, the text
\* holds no JSON object, or it holds one
StressResponses ==
    {[kind |-> k, interventions |-> Interventions("absent", <<>>)] :
         k \in {"uninitialized", "raised", "empty", "unparseable"}}
    \cup {[kind |-> "parsed", interventions |-> i] :
              i \in {Interventions("absent", <<>>),
                     Interventions("list", <<>>),
                     Interventions("list", <<"Apply for the state merit grant">>),
                     Interventions("list", <<"Apply for the state merit grant",
                                             "Ask the bursar for instalments">>),
                     Interventions("number", <<>>)}}

\* VertexAIClient.calculate_financial_stress_score: the dict it returns.
\* Every failure before the parse ends in the rule-based analysis, a text
\* without a JSON object in the default dict
vertex_calculate_financial_stress_score(response) ==
    IF response.kind \in {"uninitialized", "raised", "empty"}
    THEN [source |-> "rule_based",
          interventions |-> Interventions("list", RuleBasedInterventions)]
    ELSE IF response.kind = "unparseable"
    THEN [source |-> "default",
          interventions |-> Interventions("list", DefaultInterventions)]
    ELSE [source |-> "ai", interventions |-> response.interventions]

\* recommendations.extend(ai_insights["interventions"]) inside the try: a
\* value that cannot be iterated raises TypeError, which is logged
merge_interventions(recs, insights) ==
    IF insights.interventions.type = "list"
    THEN recs \o insights.interventions.items
    ELSE recs

\* the end of get_risk_assessment: the generic line for an empty list, the
\* scores rounded to one decimal, the list cut to five
risk_assessment(s, exps, bs, apps, recs) ==
    LET financial_stress == calculate_financial_stress_score(s, exps, bs)
        dropout_risk == calculate_dropout_risk_score(s, exps, bs, apps)
        final == IF recs = <<>> THEN generic_recommendation(financial_stress) ELSE recs
    IN  [financial_stress_score |-> Round1(financial_stress),
         dropout_risk_score |-> Round1(dropout_risk),
         recommendations |-> SubSeq(final, 1, IF Len(final) < 5 THEN Len(final) ELSE 5)]

AssessStudents ==
    {BatchStudent(1200, 0), BatchStudent(1200, 1200), BatchStudent(0, 0)}

AssessExpenses == {<<>>, <<R(76)>>, <<R(76), R(76)>>}

AssessBudgets == {<<>>, <<Budget(100, 85, "active")>>, <<Budget(100, 0, "active")>>}

InitAssess ==
    /\ student \in AssessStudents
    /\ expenses \in AssessExpenses
    /\ budgets \in AssessBudgets
    /\ applications \in {<<>>, <<"rejected", "approved">>, <<"approved", "submitted">>,
                         <<"under_review">>}
    /\ financial_stress_score = None
    /\ dropout_risk_score = None
    /\ RecIdle
    /\ BatchIdle
    /\ WorkersIdle
    /\ LedgerIdle
    /\ MatchIdle
    /\ LookupIdle
    /\ InsightsIdle
    /\ AlertsIdle
    /\ PeriodsIdle
    /\ PaymentsIdle
    /\ assess_pc = "idle"
    /\ use_ai \in BOOLEAN
    /\ recommendations = <<>>
    /\ ai_insights = None
    /\ assessment = None

\* get_risk_assessment up to the AI call: the scores, the factors and the
\* threshold rules; without use_ai the request runs to its end
AssessStart ==
    /\ assess_pc = "idle"
    /\ LET recs == rule_recommendations(student, expenses, budgets, applications)
       IN  /\ recommendations' = recs
           /\ IF use_ai
              THEN /\ assess_pc' = "awaiting"
                   /\ UNCHANGED assessment
              ELSE /\ assess_pc' = "done"
                   /\ assessment' = Some(risk_assessment(student, expenses, budgets,
                                                         applications, recs))
    /\ UNCHANGED <<use_ai, ai_insights>>
    /\ UNCHANGED <<student, riskVars, recVars, batchVars, workerVars, ledgerVars,
                   matchVars, lookupVars, insightVars, alertVars, periodVars,
                   paymentVars>>

\* the awaited AI analysis comes back and the request runs to its end
AiInsightsArrive(response) ==
    /\ assess_pc = "awaiting"
    /\ LET insights == vertex_calculate_financial_stress_score(response)
           recs == merge_interventions(recommendations, insights)
       IN  /\ ai_insights' = Some(insights)
           /\ recommendations' = recs
           /\ assessment' = Some(risk_assessment(student, expenses, budgets,
                                                 applications, recs))
    /\ assess_pc' = "done"
    /\ UNCHANGED use_ai
    /\ UNCHANGED <<student, riskVars, recVars, batchVars, workerVars, ledgerVars,
                   matchVars, lookupVars, insightVars, alertVars, periodVars,
                   paymentVars>>

\* the caller has the assessment; the next request may start
AssessReturned ==
    /\ assess_pc = "done"
    /\ assess_pc' = "idle"
    /\ recommendations' = <<>>
    /\ ai_insights' = None
    /\ assessment' = None
    /\ UNCHANGED use_ai
    /\ UNCHANGED <<student, riskVars, recVars, batchVars, workerVars, ledgerVars,
                   matchVars, lookupVars, insightVars, alertVars, periodVars,
                   paymentVars>>

NextAssess ==
    \/ AssessStart
    \/ \E response \in StressResponses : AiInsightsArrive(response)
    \/ AssessReturned

SpecAssess == InitAssess /\ [][NextAssess]_vars

(***************************************************************************)
(* RiskService calls by student id                                         *)
(***************************************************************************)
MaxStudents == 2

\* a lookup that falls back to the first row
find_student_or_first(rows, student_id) ==
    IF student_id \in 1..Len(rows) THEN Some(rows[student_id])
    ELSE IF rows # <<>> THEN Some(rows[1])
    ELSE None

\* select(Student).where(Student.id == student_id) ... scalar_one_or_none()
find_student(rows, student_id) ==
    IF student_id \in 1..Len(rows) THEN Some(rows[student_id]) ELSE None

\* a Student row with its expenses of the last 30 days and its snapshot; the
\* students of this part have no budgets and no applications
StudentRows ==
    {[profile |-> c[1], expenses |-> c[2],
      financial_stress_score |-> None, dropout_risk_score |-> None] :
        c \in {<<BatchStudent(1200, 0), <<>>>>,
               <<BatchStudent(1200, 1200), <<R(100)>>>>,
               <<BatchStudent(0, 0), <<>>>>}}

\* the outcome of a call: the exception or the value, with the table as it
\* was when the call began
Outcome(op, student_id, status, value) ==
    [op |-> op, student_id |-> student_id, status |-> status, value |-> value,
     rows_before |-> student_rows]

InitLookup ==
    /\ student = None
    /\ RiskIdle
    /\ RecIdle
    /\ BatchIdle
    /\ WorkersIdle
    /\ LedgerIdle
    /\ MatchIdle
    /\ AssessIdle
    /\ InsightsIdle
    /\ AlertsIdle
    /\ PeriodsIdle
    /\ PaymentsIdle
    /\ student_rows \in UNION {[1..n -> StudentRows] : n \in 0..MaxStudents}
    /\ lookup = None

\* RiskService.calculate_financial_stress_score(student_id)
CalculateFinancialStressScore(student_id) ==
    /\ lookup = None
    /\ LET found == find_student(student_rows, student_id)
       IN  lookup' =
               IF found = None
               THEN Some(Outcome("financial_stress", student_id, "NotFound", <<>>))
               ELSE Some(Outcome("financial_stress", student_id, "ok",
                                 <<calculate_financial_stress_score(
                                       found[1].profile, found[1].expenses, <<>>)>>))
    /\ UNCHANGED student_rows
    /\ UNCHANGED <<student, riskVars, recVars, batchVars, workerVars, ledgerVars,
                   matchVars, assessVars, insightVars, alertVars, periodVars,
                   paymentVars>>

\* RiskService.calculate_dropout_risk_score(student_id): the stress score is
\* computed first and raises for a missing student
CalculateDropoutRiskScore(student_id) ==
    /\ lookup = None
    /\ LET found == find_student(student_rows, student_id)
       IN  lookup' =
               IF found = None
               THEN Some(Outcome("dropout_risk", student_id, "NotFound", <<>>))
               ELSE Some(Outcome("dropout_risk", student_id, "ok",
                                 <<calculate_dropout_risk_score(
                                       found[1].profile, found[1].expenses, <<>>, <<>>)>>))
    /\ UNCHANGED student_rows
    /\ UNCHANGED <<student, riskVars, recVars, batchVars, workerVars, ledgerVars,
                   matchVars, assessVars, insightVars, alertVars, periodVars,
                   paymentVars>>

\* RiskService.get_risk_assessment(student_id, use_ai): the stress score is
\* computed first and raises for a missing student
GetRiskAssessment(student_id, with_ai, response) ==
    /\ lookup = None
    /\ LET found == find_student(student_rows, student_id)
       IN  lookup' =
               IF found = None
               THEN Some(Outcome("risk_assessment", student_id, "NotFound", <<>>))
               ELSE LET row == found[1]
                        rules == rule_recommendations(row.profile, row.expenses,
                                                      <<>>, <<>>)
                        recs == IF with_ai
                                THEN merge_interventions(
                                         rules,
                                         vertex_calculate_financial_stress_score(response))
                                ELSE rules
                    IN  Some(Outcome("risk_assessment", student_id, "ok",
                                     <<risk_assessment(row.profile, row.expenses,
                                                       <<>>, <<>>, recs)>>))
    /\ UNCHANGED student_rows
    /\ UNCHANGED <<student, riskVars, recVars, batchVars, workerVars, ledgerVars,
                   matchVars, assessVars, insightVars, alertVars, periodVars,
                   paymentVars>>

\* RiskService.update_student_risk_scores(student_id): the commit fails when
\* a score does not fit its NUMERIC(4, 2) column
UpdateRiskScoresById(student_id) ==
    /\ lookup = None
    /\ LET found == find_student(student_rows, student_id)
       IN  IF found = None
           THEN /\ lookup' = Some(Outcome("update_risk_scores", student_id,
                                          "NotFound", <<>>))
                /\ UNCHANGED student_rows
           ELSE LET row == found[1]
                    financial_stress ==
                        numeric_4_2(calculate_financial_stress_score(
                                        row.profile, row.expenses, <<>>))
                    dropout_risk ==
                        numeric_4_2(calculate_dropout_risk_score(
                                        row.profile, row.expenses, <<>>, <<>>))
                IN  IF financial_stress # None /\ dropout_risk # None
                    THEN /\ student_rows' =
                                [student_rows EXCEPT
                                     ![student_id].financial_stress_score = financial_stress,
                                     ![student_id].dropout_risk_score = dropout_risk]
                         /\ lookup' = Some(Outcome("update_risk_scores", student_id, "ok",
                                                   <<financial_stress[1], dropout_risk[1]>>))
                    ELSE /\ lookup' = Some(Outcome("update_risk_scores", student_id,
                                                   "DataError", <<>>))
                         /\ UNCHANGED student_rows
    /\ UNCHANGED <<student, riskVars, recVars, batchVars, workerVars, ledgerVars,
                   matchVars, assessVars, insightVars, alertVars, periodVars,
                   paymentVars>>

\* the caller has the outcome; the next call may start
LookupReturned ==
    /\ lookup # None
    /\ lookup' = None
    /\ UNCHANGED student_rows
    /\ UNCHANGED <<student, riskVars, recVars, batchVars, workerVars, ledgerVars,
                   matchVars, assessVars, insightVars, alertVars, periodVars,
                   paymentVars>>

NextLookup ==
    \/ \E student_id \in 1..(MaxStudents + 1) : CalculateFinancialStressScore(student_id)
    \/ \E student_id \in 1..(MaxStudents + 1) : CalculateDropoutRiskScore(student_id)
    \/ \E student_id \in 1..(MaxStudents + 1), with_ai \in BOOLEAN,
          response \in StressResponses :
           GetRiskAssessment(student_id, with_ai, response)
    \/ \E student_id \in 1..(MaxStudents + 1) : UpdateRiskScoresById(student_id)
    \/ LookupReturned

SpecLookup == InitLookup /\ [][NextLookup]_vars

(***************************************************************************)
(* ExpenseService.get_category_insights                                    *)
(***************************************************************************)
MaxCategoryExpenses == 3

CategoryExpense(category, amount) == [category |-> category, amount |-> R(amount)]

\* expenses of one student dated inside the analysed period; amount > 0 is
\* a CHECK constraint of the table
CategoryExpenses ==
    {CategoryExpense(c, a) : c \in {"food", "books", "transport"}, a \in {40, 60}}

\* the rows are a multiset; it is kept as a sequence ordered by category
\* and amount
InsertCategoryExpense(rows, e) ==
    LET ahead(x) == \/ x.category \in {"books"} /\ e.category \in {"food", "transport"}
                    \/ x.category = "food" /\ e.category = "transport"
                    \/ x.category = e.category /\ RLe(x.amount, e.amount)
    IN  SelectSeq(rows, ahead) \o <<e>> \o SelectSeq(rows, LAMBDA x : ~ahead(x))

\* one row of the GROUP BY category query: count, sum and average
category_row(exps, category) ==
    LET of_category == SelectSeq(exps, LAMBDA e : e.category = category)
        amounts == [i \in 1..Len(of_category) |-> of_category[i].amount]
    IN  [category |-> category,
         transaction_count |-> Len(of_category),
         total_amount |-> RSum(amounts),
         average_amount |-> RDiv(RSum(amounts), R(Len(of_category)))]

\* the results of the query: every order of the grouped rows that is
\* descending in total_amount (rows of equal total come in any order)
category_query(exps) ==
    LET categories == {exps[i].category : i \in 1..Len(exps)}
        n == Cardinality(categories)
    IN  {[i \in 1..n |-> category_row(exps, order[i])] :
            order \in {o \in [1..n -> categories] :
                          /\ \A i, j \in 1..n : i # j => o[i] # o[j]
                          /\ \A i \in 1..n, j \in 1..n :
                                 i < j => RLe(category_row(exps, o[j]).total_amount,
                                              category_row(exps, o[i]).total_amount)}}

NoInsights ==
    [categories |-> <<>>, total_spent |-> R(0),
     most_frequent_category |-> None, most_expensive_category |-> None,
     max_count |-> 0, max_total |-> R(0)]

\* a loop that also replaces the leader on an equal value
RECURSIVE insights_upto_last_wins(_, _)
insights_upto_last_wins(rows, k) ==
    IF k = 0 THEN NoInsights
    ELSE LET before == insights_upto_last_wins(rows, k - 1)
             row == rows[k]
             frequent == row.transaction_count >= before.max_count
             expensive == RLe(before.max_total, row.total_amount)
         IN  [categories |-> Append(before.categories, row),
              total_spent |-> RAdd(before.total_spent, row.total_amount),
              most_frequent_category |->
                  IF frequent THEN Some(row.category) ELSE before.most_frequent_category,
              most_expensive_category |->
                  IF expensive THEN Some(row.category) ELSE before.most_expensive_category,
              max_count |-> IF frequent THEN row.transaction_count ELSE before.max_count,
              max_total |-> IF expensive THEN row.total_amount ELSE before.max_total]

\* the loop of get_category_insights over the first k rows of the result
RECURSIVE insights_upto(_, _)
insights_upto(rows, k) ==
    IF k = 0 THEN NoInsights
    ELSE LET before == insights_upto(rows, k - 1)
             row == rows[k]
             frequent == row.transaction_count > before.max_count
             expensive == RLt(before.max_total, row.total_amount)
         IN  [categories |-> Append(before.categories, row),
              total_spent |-> RAdd(before.total_spent, row.total_amount),
              most_frequent_category |->
                  IF frequent THEN Some(row.category) ELSE before.most_frequent_category,
              most_expensive_category |->
                  IF expensive THEN Some(row.category) ELSE before.most_expensive_category,
              max_count |-> IF frequent THEN row.transaction_count ELSE before.max_count,
              max_total |-> IF expensive THEN row.total_amount ELSE before.max_total]

\* the dict get_category_insights returns for one result of the query
get_category_insights(rows) ==
    LET loop == insights_upto(rows, Len(rows))
    IN  [categories |-> loop.categories, total_spent |-> loop.total_spent,
         most_frequent_category |-> loop.most_frequent_category,
         most_expensive_category |-> loop.most_expensive_category]

InitInsights ==
    /\ student = None
    /\ RiskIdle
    /\ RecIdle
    /\ BatchIdle
    /\ WorkersIdle
    /\ LedgerIdle
    /\ MatchIdle
    /\ AssessIdle
    /\ LookupIdle
    /\ AlertsIdle
    /\ PeriodsIdle
    /\ PaymentsIdle
    /\ category_expenses = <<>>
    /\ category_insights = None

\* ExpenseService.create_expense with a date inside the analysed period
CreateCategoryExpense(e) ==
    /\ category_insights = None
    /\ Len(category_expenses) < MaxCategoryExpenses
    /\ category_expenses' = InsertCategoryExpense(category_expenses, e)
    /\ UNCHANGED category_insights
    /\ UNCHANGED <<student, riskVars, recVars, batchVars, workerVars, ledgerVars,
                   matchVars, assessVars, lookupVars, alertVars, periodVars,
                   paymentVars>>

GetCategoryInsights ==
    /\ category_insights = None
    /\ \E rows \in category_query(category_expenses) :
           category_insights' = Some(get_category_insights(rows))
    /\ UNCHANGED category_expenses
    /\ UNCHANGED <<student, riskVars, recVars, batchVars, workerVars, ledgerVars,
                   matchVars, assessVars, lookupVars, alertVars, periodVars,
                   paymentVars>>

\* the caller has the dict; the next request may start
InsightsReturned ==
    /\ category_insights # None
    /\ category_insights' = None
    /\ UNCHANGED category_expenses
    /\ UNCHANGED <<student, riskVars, recVars, batchVars, workerVars, ledgerVars,
                   matchVars, assessVars, lookupVars, alertVars, periodVars,
                   paymentVars>>

NextInsights ==
    \/ \E e \in CategoryExpenses : CreateCategoryExpense(e)
    \/ GetCategoryInsights
    \/ InsightsReturned

SpecInsights == InitInsights /\ [][NextInsights]_vars

(***************************************************************************)
(* BudgetService.check_budget_alerts                                       *)
(***************************************************************************)
MaxTicks == 3

\* the clock counts half days: timedelta(hours=24) is two ticks
TicksPerDay == 2

\* a Budget row that began at tick 0 and runs for 30 days
AlertBudget(status, spent) ==
    [status |-> status, total_amount |-> R(100), spent_amount |-> R(spent),
     alert_threshold |-> Rat(8, 10), total_days |-> 30, last_alert_sent_at |-> None]

IdleChecker == [pc |-> "idle", seen |-> None, returned |-> None]

\* the threshold alert of a budget read with last_alert_sent_at = seen
threshold_alerts(budget, seen, at) ==
    LET utilization == RDiv(budget.spent_amount, budget.total_amount)
    IN  IF /\ RLe(budget.alert_threshold, utilization)
           /\ (seen = None \/ at - seen[1] > TicksPerDay)
        THEN <<[type |-> "budget_threshold",
                priority |-> IF RLe(Rat(9, 10), utilization) THEN "high" ELSE "medium"]>>
        ELSE <<>>

\* the spending-rate alert: spent more than 1.2 times the share of the total
\* that the days passed stand for
spending_rate_alerts(budget, at) ==
    LET days_passed == (at \div TicksPerDay) + 1
        expected_spending == RMul(RDiv(budget.total_amount, R(budget.total_days)),
                                  R(days_passed))
    IN  IF RLt(RMul(expected_spending, Rat(12, 10)), budget.spent_amount)
        THEN <<[type |-> "spending_rate", priority |-> "medium"]>>
        ELSE <<>>

InitAlerts ==
    /\ student = None
    /\ RiskIdle
    /\ RecIdle
    /\ BatchIdle
    /\ WorkersIdle
    /\ LedgerIdle
    /\ MatchIdle
    /\ AssessIdle
    /\ LookupIdle
    /\ InsightsIdle
    /\ PeriodsIdle
    /\ PaymentsIdle
    /\ alert_budget \in {None} \cup
           {Some(AlertBudget(s, a)) : s \in {"active", "completed"}, a \in {2, 85, 95}}
    /\ now = 0
    /\ checkers = [p \in Procs |-> IdleChecker]
    /\ alert_log = {}

\* check_budget_alerts up to its first await: get_budget_by_id; a missing
\* or non-active budget returns []
BeginCheck(p) ==
    /\ checkers[p].pc = "idle"
    /\ checkers' =
           [checkers EXCEPT ![p] =
                IF alert_budget = None \/ alert_budget[1].status # "active"
                THEN [pc |-> "idle", seen |-> None, returned |-> Some(<<>>)]
                ELSE [pc |-> "read", seen |-> alert_budget[1].last_alert_sent_at,
                      returned |-> None]]
    /\ UNCHANGED <<alert_budget, now, alert_log>>
    /\ UNCHANGED <<student, riskVars, recVars, batchVars, workerVars, ledgerVars,
                   matchVars, assessVars, lookupVars, insightVars, periodVars,
                   paymentVars>>

\* the rest of check_budget_alerts on the row as it was read: the alerts, the
\* new last_alert_sent_at and the commit
FinishCheck(p) ==
    /\ checkers[p].pc = "read"
    /\ LET budget == alert_budget[1]
           threshold == threshold_alerts(budget, checkers[p].seen, now)
           alerts == threshold \o spending_rate_alerts(budget, now)
       IN  /\ alert_budget' =
                  IF threshold # <<>>
                  THEN Some([budget EXCEPT !.last_alert_sent_at = Some(now)])
                  ELSE alert_budget
           /\ alert_log' = alert_log \cup
                  {[at |-> now, by |-> p, type |-> alerts[i].type,
                    priority |-> alerts[i].priority] : i \in 1..Len(alerts)}
           /\ checkers' = [checkers EXCEPT ![p] =
                               [pc |-> "idle", seen |-> None, returned |-> Some(alerts)]]
    /\ UNCHANGED now
    /\ UNCHANGED <<student, riskVars, recVars, batchVars, workerVars, ledgerVars,
                   matchVars, assessVars, lookupVars, insightVars, periodVars,
                   paymentVars>>

\* half a day passes
Tick ==
    /\ now < MaxTicks
    /\ now' = now + 1
    /\ UNCHANGED <<alert_budget, checkers, alert_log>>
    /\ UNCHANGED <<student, riskVars, recVars, batchVars, workerVars, ledgerVars,
                   matchVars, assessVars, lookupVars, insightVars, periodVars,
                   paymentVars>>

NextAlerts ==
    \/ \E p \in Procs : BeginCheck(p)
    \/ \E p \in Procs : FinishCheck(p)
    \/ Tick

SpecAlerts == InitAlerts /\ [][NextAlerts]_vars

(***************************************************************************)
(* BudgetService.create_budget, update_budget and delete_budget            *)
(***************************************************************************)
MaxPeriodBudgets == 2

BudgetCreate(student_id, start_date, end_date, period) ==
    [student_id |-> student_id, start_date |-> start_date, end_date |-> end_date,
     period |-> period]

\* the BudgetCreate payloads of the requests
BudgetCreates ==
    {BudgetCreate(1, 1, 2, "monthly"), BudgetCreate(1, 2, 3, "monthly"),
     BudgetCreate(1, 4, 5, "custom"), BudgetCreate(2, 1, 2, "monthly"),
     BudgetCreate(1, 3, 3, "monthly")}

\* the statuses a BudgetUpdate payload sets
UpdateStatuses == {"active", "completed"}

\* the rows the overlap query of create_budget selects
overlapping_rows(rows, data) ==
    {i \in 1..Len(rows) :
        /\ rows[i].student_id = data.student_id
        /\ rows[i].status = "active"
        /\ \/ /\ rows[i].start_date <= data.end_date
              /\ rows[i].end_date >= data.start_date
           \/ rows[i].period = "custom"}

\* the active budgets of the same student whose date range meets the
\* range of the payload
date_overlaps(rows, data) ==
    {i \in 1..Len(rows) :
        /\ rows[i].student_id = data.student_id
        /\ rows[i].status = "active"
        /\ rows[i].start_date <= data.end_date
        /\ rows[i].end_date >= data.start_date}

PeriodOutcome(op, data, status, created, overlapped) ==
    Some([op |-> op, data |-> data, status |-> status, created |-> created,
          overlapped |-> overlapped])

InitPeriods ==
    /\ student = None
    /\ RiskIdle
    /\ RecIdle
    /\ BatchIdle
    /\ WorkersIdle
    /\ LedgerIdle
    /\ MatchIdle
    /\ AssessIdle
    /\ LookupIdle
    /\ InsightsIdle
    /\ AlertsIdle
    /\ PaymentsIdle
    /\ period_rows = <<>>
    /\ creators = [p \in Procs |-> None]
    /\ period_outcome = None

PendingCreates == Cardinality({p \in Procs : creators[p] # None})

\* create_budget up to its commit: the date validation and the overlap
\* query; scalar_one_or_none raises when the query selects several rows
CreateBudgetQuery(p, data) ==
    /\ creators[p] = None
    /\ LET found == overlapping_rows(period_rows, data)
           overlapped == date_overlaps(period_rows, data) # {}
       IN  IF data.end_date <= data.start_date
           THEN /\ period_outcome' = PeriodOutcome("create_budget", data,
                                                   "ValidationError", FALSE, overlapped)
                /\ UNCHANGED creators
           ELSE IF Cardinality(found) > 1
           THEN /\ period_outcome' = PeriodOutcome("create_budget", data,
                                                   "MultipleResultsFound", FALSE, overlapped)
                /\ UNCHANGED creators
           ELSE IF Cardinality(found) = 1
           THEN /\ period_outcome' = PeriodOutcome("create_budget", data,
                                                   "ConflictError", FALSE, overlapped)
                /\ UNCHANGED creators
           ELSE /\ Len(period_rows) + PendingCreates < MaxPeriodBudgets
                /\ creators' = [creators EXCEPT ![p] = Some(data)]
                /\ UNCHANGED period_outcome
    /\ UNCHANGED period_rows
    /\ UNCHANGED <<student, riskVars, recVars, batchVars, workerVars, ledgerVars,
                   matchVars, assessVars, lookupVars, insightVars, alertVars,
                   paymentVars>>

\* the rest of create_budget: the row is added as ACTIVE and committed
CreateBudgetCommit(p) ==
    /\ creators[p] # None
    /\ LET data == creators[p][1]
       IN  /\ period_rows' = Append(period_rows,
                                    [student_id |-> data.student_id, status |-> "active",
                                     start_date |-> data.start_date,
                                     end_date |-> data.end_date, period |-> data.period])
           /\ period_outcome' = PeriodOutcome("create_budget", data, "ok", TRUE,
                                              date_overlaps(period_rows, data) # {})
    /\ creators' = [creators EXCEPT ![p] = None]
    /\ UNCHANGED <<student, riskVars, recVars, batchVars, workerVars, ledgerVars,
                   matchVars, assessVars, lookupVars, insightVars, alertVars,
                   paymentVars>>

\* update_budget with a payload that sets the status
UpdateBudget(budget_id, status) ==
    /\ IF budget_id \in 1..Len(period_rows)
       THEN /\ period_rows' = [period_rows EXCEPT ![budget_id].status = status]
            /\ period_outcome' = PeriodOutcome("update_budget", budget_id, "ok",
                                               FALSE, FALSE)
       ELSE /\ period_outcome' = PeriodOutcome("update_budget", budget_id,
                                               "NotFoundError", FALSE, FALSE)
            /\ UNCHANGED period_rows
    /\ UNCHANGED creators
    /\ UNCHANGED <<student, riskVars, recVars, batchVars, workerVars, ledgerVars,
                   matchVars, assessVars, lookupVars, insightVars, alertVars,
                   paymentVars>>

\* delete_budget: the row is kept and marked cancelled
SoftDeleteBudget(budget_id) ==
    /\ IF budget_id \in 1..Len(period_rows)
       THEN /\ period_rows' = [period_rows EXCEPT ![budget_id].status = "cancelled"]
            /\ period_outcome' = PeriodOutcome("delete_budget", budget_id, "ok",
                                               FALSE, FALSE)
       ELSE /\ period_outcome' = PeriodOutcome("delete_budget", budget_id,
                                               "NotFoundError", FALSE, FALSE)
            /\ UNCHANGED period_rows
    /\ UNCHANGED creators
    /\ UNCHANGED <<student, riskVars, recVars, batchVars, workerVars, ledgerVars,
                   matchVars, assessVars, lookupVars, insightVars, alertVars,
                   paymentVars>>

NextPeriods ==
    \/ \E p \in Procs, data \in BudgetCreates : CreateBudgetQuery(p, data)
    \/ \E p \in Procs : CreateBudgetCommit(p)
    \/ \E budget_id \in 1..(MaxPeriodBudgets + 1), status \in UpdateStatuses :
           UpdateBudget(budget_id, status)
    \/ \E budget_id \in 1..(MaxPeriodBudgets + 1) : SoftDeleteBudget(budget_id)

SpecPeriods == InitPeriods /\ [][NextPeriods]_vars

(***************************************************************************)
(* PaymentService: payments, status updates and refunds                    *)
(***************************************************************************)
MaxPayments == 3

\* the values of PaymentStatus
PaymentStatuses ==
    {"pending", "processing", "success", "failed", "cancelled", "refunded",
     "partially_refunded"}

\* the amounts of the create_payment requests
PaymentAmounts == {0, 100}

\* the refund_amount arguments of the create_refund requests
RefundAmounts == {0, 40, 100}

\* the "status" values of the webhook payloads: absent, not a status, and
\* a status in the gateway's spelling
WebhookStatuses == {None, Some("bogus"), Some("SUCCESS")}

\* str.lower() on the webhook's status texts
lower_status(text) ==
    CASE text = "SUCCESS" -> "success"
      [] text = "Failed" -> "failed"
      [] OTHER -> text

PaymentRow(amount, status, refund_of) ==
    [amount |-> amount, status |-> status, refund_of |-> refund_of]

PaymentOutcome(op, status) == Some([op |-> op, status |-> status])

IdleRefunder == [pc |-> "idle", payment_id |-> 0, refund_amount |-> 0, refund_id |-> 0]

InitPayments ==
    /\ student = None
    /\ RiskIdle
    /\ RecIdle
    /\ BatchIdle
    /\ WorkersIdle
    /\ LedgerIdle
    /\ MatchIdle
    /\ AssessIdle
    /\ LookupIdle
    /\ InsightsIdle
    /\ AlertsIdle
    /\ PeriodsIdle
    /\ payments = <<>>
    /\ refunders = [p \in Procs |-> IdleRefunder]
    /\ payment_outcome = None

\* the rows create_refund calls in flight will still add
RefundsToCome == Cardinality({p \in Procs : refunders[p].pc = "validated"})

\* create_payment: a PENDING row, refused for an amount that is not positive
CreatePayment(amount) ==
    /\ IF amount <= 0
       THEN /\ payment_outcome' = PaymentOutcome("create_payment", "ValidationError")
            /\ UNCHANGED payments
       ELSE /\ Len(payments) + RefundsToCome < MaxPayments
            /\ payments' = Append(payments, PaymentRow(amount, "pending", 0))
            /\ payment_outcome' = PaymentOutcome("create_payment", "ok")
    /\ UNCHANGED refunders
    /\ UNCHANGED <<student, riskVars, recVars, batchVars, workerVars, ledgerVars,
                   matchVars, assessVars, lookupVars, insightVars, alertVars,
                   periodVars>>

\* simulate_payment: after the checks of the simulation data the payment is
\* committed as PROCESSING; the name asyncio of the line that follows is not
\* imported by the module, so the call ends there
SimulatePayment(payment_id, details_valid) ==
    /\ IF payment_id \notin 1..Len(payments)
       THEN /\ payment_outcome' = PaymentOutcome("simulate_payment", "NotFoundError")
            /\ UNCHANGED payments
       ELSE IF ~details_valid
       THEN /\ payment_outcome' = PaymentOutcome("simulate_payment", "ValidationError")
            /\ UNCHANGED payments
       ELSE /\ payments' = [payments EXCEPT ![payment_id].status = "processing"]
            /\ payment_outcome' = PaymentOutcome("simulate_payment", "NameError")
    /\ UNCHANGED refunders
    /\ UNCHANGED <<student, riskVars, recVars, batchVars, workerVars, ledgerVars,
                   matchVars, assessVars, lookupVars, insightVars, alertVars,
                   periodVars>>

\* update_payment_status: the status is set to whatever is given
update_payment_status(rows, payment_id, status) ==
    [rows EXCEPT ![payment_id].status = status]

\* process_webhook: the payment is found by its reference, the status text
\* is parsed and handed to update_payment_status
ProcessWebhook(payment_id, status) ==
    /\ IF payment_id \notin 1..Len(payments)
       THEN /\ payment_outcome' = PaymentOutcome("process_webhook", "NotFoundError")
            /\ UNCHANGED payments
       ELSE IF status = None \/ lower_status(status[1]) \notin PaymentStatuses
       THEN /\ payment_outcome' = PaymentOutcome("process_webhook", "ValidationError")
            /\ UNCHANGED payments
       ELSE /\ payments' = update_payment_status(payments, payment_id,
                                                 lower_status(status[1]))
            /\ payment_outcome' = PaymentOutcome("process_webhook", "ok")
    /\ UNCHANGED refunders
    /\ UNCHANGED <<student, riskVars, recVars, batchVars, workerVars, ledgerVars,
                   matchVars, assessVars, lookupVars, insightVars, alertVars,
                   periodVars>>

\* whether create_refund lets the refund through
refund_allowed(original_payment, refund_amount) ==
    /\ original_payment.status = "success"
    /\ ~(refund_amount <= 0 \/ refund_amount > original_payment.amount)

\* create_refund up to create_payment: the original is read and the request
\* validated
RefundValidate(p, payment_id, refund_amount) ==
    /\ refunders[p].pc = "idle"
    /\ IF payment_id \notin 1..Len(payments)
       THEN /\ payment_outcome' = PaymentOutcome("create_refund", "NotFoundError")
            /\ UNCHANGED refunders
       ELSE IF ~refund_allowed(payments[payment_id], refund_amount)
       THEN /\ payment_outcome' = PaymentOutcome("create_refund", "ValidationError")
            /\ UNCHANGED refunders
       ELSE /\ Len(payments) + RefundsToCome < MaxPayments
            /\ refunders' = [refunders EXCEPT ![p] =
                                 [pc |-> "validated", payment_id |-> payment_id,
                                  refund_amount |-> refund_amount, refund_id |-> 0]]
            /\ UNCHANGED payment_outcome
    /\ UNCHANGED payments
    /\ UNCHANGED <<student, riskVars, recVars, batchVars, workerVars, ledgerVars,
                   matchVars, assessVars, lookupVars, insightVars, alertVars,
                   periodVars>>

\* create_refund's call of create_payment: the refund row is committed as
\* PENDING
RefundCreatePayment(p) ==
    /\ refunders[p].pc = "validated"
    /\ payments' = Append(payments, PaymentRow(refunders[p].refund_amount, "pending",
                                               refunders[p].payment_id))
    /\ refunders' = [refunders EXCEPT ![p].pc = "created",
                                      ![p].refund_id = Len(payments) + 1]
    /\ UNCHANGED payment_outcome
    /\ UNCHANGED <<student, riskVars, recVars, batchVars, workerVars, ledgerVars,
                   matchVars, assessVars, lookupVars, insightVars, alertVars,
                   periodVars>>

\* the rest of create_refund: the refund becomes SUCCESS and the original
\* REFUNDED or PARTIALLY_REFUNDED, in one commit
RefundCommit(p) ==
    /\ refunders[p].pc = "created"
    /\ LET original_id == refunders[p].payment_id
           refund_amount == refunders[p].refund_amount
           new_status == IF refund_amount = payments[original_id].amount
                         THEN "refunded" ELSE "partially_refunded"
       IN  /\ payments' = [payments EXCEPT ![refunders[p].refund_id].status = "success",
                                           ![original_id].status = new_status]
           /\ payment_outcome' = PaymentOutcome("create_refund", "ok")
    /\ refunders' = [refunders EXCEPT ![p] = IdleRefunder]
    /\ UNCHANGED <<student, riskVars, recVars, batchVars, workerVars, ledgerVars,
                   matchVars, assessVars, lookupVars, insightVars, alertVars,
                   periodVars>>

NextPayments ==
    \/ \E amount \in PaymentAmounts : CreatePayment(amount)
    \/ \E payment_id \in 1..(MaxPayments + 1), details_valid \in BOOLEAN :
           SimulatePayment(payment_id, details_valid)
    \/ \E payment_id \in 1..(MaxPayments + 1), status \in WebhookStatuses :
           ProcessWebhook(payment_id, status)
    \/ \E p \in Procs, payment_id \in 1..(MaxPayments + 1),
          refund_amount \in RefundAmounts : RefundValidate(p, payment_id, refund_amount)
    \/ \E p \in Procs : RefundCreatePayment(p)
    \/ \E p \in Procs : RefundCommit(p)

SpecPayments == InitPayments /\ [][NextPayments]_vars

(***************************************************************************)
(* Claims about the risk scorers                                           *)
(***************************************************************************)
InRange(o) == o # None => (RLe(R(0), o[1]) /\ RLe(o[1], R(100)))

C3_StressMonotone ==
    \A amount \in ExpenseAmounts :
        LET more == InsertExpense(expenses, amount)
        IN  /\ RLe(expense_score_of(student, expenses), expense_score_of(student, more))
            /\ RLe(calculate_financial_stress_score(student, expenses, budgets),
                   calculate_financial_stress_score(student, more, budgets))

(***************************************************************************)
(* Claims about the budget recommendation                                  *)
(***************************************************************************)
Within(a, b, tol) == RLe(RAbs(RSub(a, b)), tol)

\* the cases in which the AI path fails: client not initialised, the call
\* raised, empty text, no JSON object parsed, or the validation pass raised
AiFailed ==
    \/ ~initialized
    \/ /\ ai_response # None
       /\ \/ ai_response[1].kind = "raise"
          \/ ai_response[1].text.form \in
                {"empty", "prose", "malformed", "array_empty", "array_scalar",
                 "object_illtyped"}

\* the request returned the validated AI budget
AiSucceeded == pc = "done" /\ initialized /\ ~AiFailed

AiBudget == ai_response[1].text.data[1]
Returned == budget_result[1]

\* C2: whenever the AI path fails, generate_budget_recommendation returns
\* exactly what _generate_rule_based_budget returns for the same student and
\* expenses; no field comes from the AI response.
C2_FallbackIsRuleBased ==
    (pc = "done" /\ AiFailed)
        => budget_result = Some(generate_rule_based_budget(student, request_expenses))

\* C2 witness: the AI answered with a JSON object on which the validation
\* pass raised, and the request returned.
C2_Witness ==
    /\ pc = "done"
    /\ initialized
    /\ ai_response # None
    /\ ai_response[1].text.form = "object_illtyped"

\* C4: in every output of _generate_rule_based_budget the eight rounded
\* category amounts sum to total_monthly_budget within 0.01 and the eight
\* percentages sum to exactly 100.
C4_RuleBasedSums ==
    \A call \in rule_log :
        /\ Within(sum_amounts(call.budget.categories),
                  call.budget.total_monthly_budget, Rat(1, 100))
        /\ sum_percentages(call.budget.categories) = R(100)

\* C5: in the budget returned by _validate_budget_recommendation the
\* category amounts sum to the returned total_monthly_budget within 0.01.
C5_ValidatedAmountsSum ==
    AiSucceeded
        => Within(sum_amounts(Returned.categories),
                  Returned.total_monthly_budget, Rat(1, 100))

C8_EssentialFloor ==
    AiSucceeded
        => \A c \in essentials \cap DOMAIN Returned.categories :
              LET floor == RMul(Returned.total_monthly_budget, Rat(1, 10))
                  wasBelow ==
                      RLt(apply_budget_cap(AiBudget, student).categories[c].percentage,
                          R(10))
              IN  /\ RLe(floor, Returned.categories[c].amount)
                  /\ wasBelow => /\ Returned.categories[c].amount = floor
                                 /\ Returned.categories[c].rationale = <<"ai", AdjustedNote>>

C10_SingleAttempt ==
    /\ ai_calls <= 1
    /\ rule_calls <= 1
    /\ (pc = "done" /\ AiFailed) => rule_calls = 1
    /\ AiSucceeded => (rule_calls = 0 /\ ai_calls = 1)

\* C10 witness: a request whose AI call raised has returned after one AI
\* call and one rule-based call.
C10_Witness ==
    /\ pc = "done"
    /\ initialized
    /\ ai_response # None
    /\ ai_response[1].kind = "raise"
    /\ ai_calls = 1
    /\ rule_calls = 1

\* C11: a request suspended on the AI call always eventually returns a budget
\* (a collaborator that never answers is cut off and the rule-based budget is
\* returned)
C11_EventuallyReturns == (pc = "awaiting") ~> (pc = "done" /\ budget_result # None)

(***************************************************************************)
(* Claims about the batch operations                                       *)
(***************************************************************************)
\* the rows of the batch whose scoring raised nothing
ScoredRows(n) == {k \in 1..n : ~batch_students[k].raises}

AtRiskCoversSuccesses ==
    LET n == IF batch_args.limit < Len(batch_students)
             THEN batch_args.limit ELSE Len(batch_students)
        listed == {batch_result[1].value[i].student_id :
                      i \in 1..Len(batch_result[1].value)}
    IN  /\ Len(batch_result[1].value) = Cardinality(listed)
        /\ listed = {k \in ScoredRows(n) :
                        RLe(batch_args.threshold, stress_of_row(batch_students[k]))}

\* C12: a batch operation returns normally whatever a single student's scoring
\* raises, and its result (list / updated_count) covers exactly the students
\* whose scoring succeeded
C12_BatchTolerant ==
    batch_result # None =>
        /\ batch_result[1].status = "ok"
        /\ batch_result[1].op = "get_at_risk_students" => AtRiskCoversSuccesses
        /\ batch_result[1].op = "recalculate_all_risk_scores" =>
               batch_result[1].updated_count =
                   Cardinality(ScoredRows(Len(batch_students)))

(***************************************************************************)
(* Claims about concurrent snapshot updates                                *)
(***************************************************************************)
\* C13: with the student's data unchanged, once two calls of
\* update_student_risk_scores for the student have both ended (one after the
\* other or interleaved in any way) the stored snapshot holds exactly the two
\* scores the scorers yield on the current data, and stays so under any
\* further call
C13_SnapshotIsCurrent ==
    (workers # <<>> /\ \A p \in Procs : workers[p].calls > 0) =>
        /\ financial_stress_score =
               Some(calculate_financial_stress_score(student, expenses, budgets))
        /\ dropout_risk_score =
               Some(calculate_dropout_risk_score(student, expenses, budgets,
                                                 applications))

(***************************************************************************)
(* Claims about the budgets table                                          *)
(***************************************************************************)
\* C14: after every completed create_budget, create_expense, update_expense,
\* delete_expense and update_budget_spending, in any order and number, every
\* budget has remaining_amount = total_amount - spent_amount
C14_RemainingIsTotalMinusSpent ==
    \A k \in 1..Len(budget_rows) :
        budget_rows[k].remaining_amount =
            RSub(budget_rows[k].total_amount, budget_rows[k].spent_amount)

\* a cancelled budget beside an active one that has one expense of 60
\* booked and a second expense of 60 whose booking the table refused
\* (120 > 100)
C14_Witness ==
    /\ Len(budget_rows) = 2
    /\ budget_rows[1].status = "cancelled"
    /\ budget_rows[2].status = "active"
    /\ budget_rows[2].spent_amount = R(60)
    /\ budget_rows[2].remaining_amount = R(40)
    /\ Len(expense_rows) = 2
    /\ \A i \in 1..2 : expense_rows[i].budget_id = 2
    /\ spent_on(expense_rows, 2) = R(120)

(***************************************************************************)
(* Claims about the rule-based budget                                      *)
(***************************************************************************)
\* what the claims expect for the cities and categories of the model
ExpectedCityIndex ==
    [c \in {"Mumbai", "mumbai"} |-> Rat(15, 10)] @@
    [c \in {"BANGALORE"} |-> Rat(14, 10)] @@
    [c \in {"kanpur"} |-> Rat(7, 10)] @@
    [c \in {"shimla"} |-> R(1)]

ExpectedPercentage ==
    [tuition_fee |-> 40, hostel_fee |-> 25, food |-> 20, transport |-> 5,
     books |-> 5, medical |-> 2, entertainment |-> 2, savings |-> 1]

\* monthly_allowance if there is one (and it is not zero), else income / 12
ExpectedBase ==
    IF student.monthly_allowance # None /\ student.monthly_allowance[1] # R(0)
    THEN student.monthly_allowance[1]
    ELSE RDiv(student.family_annual_income, R(12))

Cent == Rat(1, 100)

C16_DefaultFloor ==
    \A call \in rule_log :
        /\ RLt(R(0), call.budget.total_monthly_budget)
        /\ (~Truthy(student.monthly_allowance)
            /\ RLe(student.family_annual_income, R(0))) =>
               Within(call.budget.total_monthly_budget,
                      RMul(R(10000), ExpectedCityIndex[student.city]), Cent)

(***************************************************************************)
(* Claims about the sub-scores of the stress scorer                        *)
(***************************************************************************)
\* C17: the debt-burden sub-score is min(loan / income x 200, 100) for a
\* student with an education loan of nonzero amount and income > 0, and 0
\* otherwise: it is 100 from a loan of half the income on, and below that
\* score x income = loan x 200
C17_DebtBurden ==
    student # None =>
        LET score == debt_score_of(student)
            loan == student.education_loan_amount
            income == student.family_annual_income
        IN  IF /\ student.has_education_loan
               /\ loan # None
               /\ loan[1] # R(0)
               /\ RLt(R(0), income)
            THEN IF RLe(RMul(income, Rat(1, 2)), loan[1])
                 THEN score = R(100)
                 ELSE RMul(score, income) = RMul(loan[1], R(200))
            ELSE score = R(0)

\* a loan of exactly half the income (600 of 1200), no expenses, no budgets:
\* the stored stress score is 100 x 0.25 + 20 x 0.20 + 50 x 0.15 = 36.5
C17_Witness ==
    /\ student # None
    /\ student.has_education_loan
    /\ student.education_loan_amount = Some(R(600))
    /\ student.family_annual_income = R(1200)
    /\ student.monthly_allowance = None
    /\ expenses = <<>>
    /\ budgets = <<>>
    /\ debt_score_of(student) = R(100)
    /\ financial_stress_score = Some(Rat(365, 10))

\* the penalty p(u) as the claim gives it
ClaimedPenalty(u) ==
    IF RLe(Rat(80, 100), u) /\ RLe(u, Rat(90, 100)) THEN R(0)
    ELSE IF RLt(R(1), u) THEN R(100)
    ELSE RMin(RMul(RAbs(RSub(u, Rat(85, 100))), R(200)), R(100))

FailsIncomeCeiling(s, sch) ==
    sch.max_income # None /\ RLt(sch.max_income[1], s.family_annual_income)

FailsRestriction(s, sch) ==
    \/ (sch.eligible_castes # {} /\ s.caste_category \notin sch.eligible_castes)
    \/ (sch.eligible_genders # {} /\ s.gender \notin sch.eligible_genders)
    \/ (sch.eligible_courses # {} /\ s.course_name \notin sch.eligible_courses)
    \/ (sch.eligible_states # {} /\ s.state \notin sch.eligible_states)

FailsFloor(s, sch) ==
    \/ (sch.min_income # None /\ RLt(s.family_annual_income, sch.min_income[1]))
    \/ (sch.min_percentage # None /\ s.last_semester_percentage # None
        /\ RLt(s.last_semester_percentage[1], sch.min_percentage[1]))
    \/ (sch.min_cgpa # None /\ s.current_cgpa # None
        /\ RLt(s.current_cgpa[1], sch.min_cgpa[1]))

ClaimedNeedFactor(s, sch) ==
    IF Truthy(sch.amount) /\ s.family_annual_income.n # 0
    THEN RMin(R(1), RMul(RDiv(sch.amount[1], s.family_annual_income), R(10)))
    ELSE Rat(5, 10)

\* the blend of the claim
ClaimedMatchScore(s, sch) ==
    RMin(R(1),
         RAdd(RAdd(RMul(Rat(6, 10), calculate_eligibility_score(s, sch)),
                   RMul(Rat(2, 10), ClaimedNeedFactor(s, sch))),
              RAdd(RMul(Rat(1, 10), calculate_urgency_factor(sch)),
                   RMul(Rat(1, 10), sch.popularity_score))))

\* the list that came back is within the limit, names no scholarship twice,
\* carries the blended scores, all at least 0.5 and at most 1, leaves out no
\* considered scholarship scoring at least 0.5 unless it is full, and is in
\* non-increasing order of match score
ReturnedListFilteredAndRanked ==
    LET matches == match_result[1].matches
        returned == {matches[i].scholarship : i \in 1..Len(matches)}
    IN  /\ Len(matches) <= match_limit
        /\ Cardinality(returned) = Len(matches)
        /\ \A i \in 1..Len(matches) :
               /\ matches[i].scholarship \in 1..Len(scholarships)
               /\ matches[i].match_score =
                      ClaimedMatchScore(student, scholarships[matches[i].scholarship])
               /\ RLe(Rat(5, 10), matches[i].match_score)
               /\ RLe(matches[i].match_score, R(1))
        /\ \A k \in 1..Len(scholarships) :
               RLe(Rat(5, 10), ClaimedMatchScore(student, scholarships[k])) =>
                   (k \in returned \/ Len(matches) = match_limit)
        /\ \A i \in 1..Len(matches), j \in 1..Len(matches) :
               i < j => RLe(matches[j].match_score, matches[i].match_score)

\* C20: the matcher comes back with a list of matches; every match returned
\* carries the blended score of its scholarship, which is in [0, 1] and at
\* least 0.5; a considered scholarship scoring at least 0.5 is returned unless
\* the list has `limit` entries; the list is in non-increasing order of match
\* score
C20_MatchesFilteredAndRanked ==
    match_result # None =>
        /\ match_result[1].status = "ok"
        /\ ReturnedListFilteredAndRanked

(***************************************************************************)
(* Claims about the risk assessment                                        *)
(***************************************************************************)
\* the recommendations the threshold rules give for the state at hand
ClaimedRules ==
    LET financial_stress == calculate_financial_stress_score(student, expenses, budgets)
        dropout_risk == calculate_dropout_risk_score(student, expenses, budgets,
                                                     applications)
        loan_percent == IF student.has_education_loan
                           /\ Truthy(student.education_loan_amount)
                           /\ student.family_annual_income.n > 0
                        THEN RMul(RDiv(student.education_loan_amount[1],
                                       student.family_annual_income), R(100))
                        ELSE R(0)
    IN  (IF RLt(R(70), financial_stress) THEN StressRecommendations ELSE <<>>)
        \o (IF RLt(R(60), dropout_risk) THEN DropoutRecommendations ELSE <<>>)
        \o (IF RLt(R(50), loan_percent) THEN DebtRecommendations ELSE <<>>)
        \o (IF RLt(R(70), calculate_budget_compliance_score(budgets))
            THEN ComplianceRecommendations ELSE <<>>)

ClaimedGeneric ==
    IF RLt(calculate_financial_stress_score(student, expenses, budgets), R(30))
    THEN <<"Financial health is good. Consider building an emergency fund.">>
    ELSE <<"Monitor expenses and explore scholarship opportunities.">>

FirstFive(list) == SubSeq(list, 1, IF Len(list) < 5 THEN Len(list) ELSE 5)

\* the AI path of the request at hand succeeded: the model answered with a
\* JSON object whose interventions could be merged
AiPathSucceeded ==
    /\ use_ai
    /\ ai_insights # None
    /\ ai_insights[1].source = "ai"
    /\ ai_insights[1].interventions.type # "number"

\* the entries that came from the model's answer
AiSourced(entry) ==
    \E r \in StressResponses :
        \E i \in 1..Len(r.interventions.items) : r.interventions.items[i] = entry

\* the rules are computed before the AI is consulted and head the list
RulesComeFirst ==
    /\ assess_pc = "awaiting" => recommendations = ClaimedRules
    /\ assessment # None =>
           LET out == assessment[1].recommendations
           IN  /\ \A i \in 1..Len(out) :
                      i <= Len(ClaimedRules) => out[i] = ClaimedRules[i]
               /\ \A i \in 1..Len(out) : AiSourced(out[i]) => AiPathSucceeded

\* C21 as stated: the rules are computed before the AI is consulted and head
\* the list, AI-sourced entries appear only when the AI path succeeded, and
\* when the AI was asked and its path failed the list is the rule-based one
\* (its first five entries), or the generic line when no rule fired
C21_Original ==
    /\ RulesComeFirst
    /\ (assessment # None /\ use_ai /\ ~AiPathSucceeded) =>
           assessment[1].recommendations =
               FirstFive(IF ClaimedRules = <<>> THEN ClaimedGeneric ELSE ClaimedRules)

\* what is appended to the rules: nothing without use_ai, the interventions
\* of the client's rule-based analysis when the call failed, those of its
\* default dict when the text held no JSON object, the model's own otherwise
ClaimedAppended ==
    IF ~use_ai THEN <<>>
    ELSE IF ai_insights[1].source = "rule_based" THEN RuleBasedInterventions
    ELSE IF ai_insights[1].source = "default" THEN DefaultInterventions
    ELSE ai_insights[1].interventions.items

\* C21 (amended): the rules are computed before the AI is consulted and head
\* the list, AI-sourced entries appear only when the AI path succeeded, and
\* the list returned is the first five of the rules followed by what the
\* client handed back (its own fixed interventions when the AI call failed),
\* or the generic line when that is empty
C21_RulesFirst ==
    /\ RulesComeFirst
    /\ assessment # None =>
           LET merged == ClaimedRules \o ClaimedAppended
           IN  assessment[1].recommendations =
                   FirstFive(IF merged = <<>> THEN ClaimedGeneric ELSE merged)

\* the AI call raised for a student with a high debt burden and nothing
\* else: the debt rule, then the four interventions of the rule-based analysis
C21_Witness ==
    /\ assessment # None
    /\ use_ai
    /\ ai_insights[1].source = "rule_based"
    /\ ClaimedRules = DebtRecommendations
    /\ assessment[1].recommendations = DebtRecommendations \o RuleBasedInterventions

\* C22: a call of one of the four operations for a student id that has no
\* row ends in NotFound without a value, and the students table, snapshots
\* included, is as it was when the call began
C22_NotFound ==
    (lookup # None /\ lookup[1].student_id \notin 1..Len(student_rows)) =>
        /\ lookup[1].status = "NotFound"
        /\ lookup[1].value = <<>>
        /\ student_rows = lookup[1].rows_before

\* update_student_risk_scores for the id after the last row, in a table whose
\* first row has a stored snapshot
C22_Witness ==
    /\ lookup # None
    /\ lookup[1].op = "update_risk_scores"
    /\ lookup[1].student_id = Len(student_rows) + 1
    /\ lookup[1].status = "NotFound"
    /\ Len(student_rows) = 2
    /\ student_rows[1].financial_stress_score # None

\* the monthly income of the claim: the allowance when there is one, a
\* twelfth of the annual family income otherwise
ClaimedMonthlyIncome ==
    IF student.monthly_allowance # None THEN student.monthly_allowance[1]
    ELSE RDiv(student.family_annual_income, R(12))

\* C23: the savings-buffer sub-score is 0 when the monthly income is zero or
\* negative; otherwise 20 when the monthly expenses are below 0.8 x income,
\* 100 when they are at least the income, and 0 in between; the monthly
\* income is the allowance when present and family_annual_income / 12
\* otherwise
C23_SavingsBuffer ==
    LET income == ClaimedMonthlyIncome
        spent == RSum(expenses)
    IN  savings_score_of(student, expenses) =
            IF RLe(income, R(0)) THEN R(0)
            ELSE IF RLt(spent, RMul(Rat(8, 10), income)) THEN R(20)
            ELSE IF RLe(income, spent) THEN R(100)
            ELSE R(0)

\* the academic contribution of the claim
ClaimedAcademic ==
    IF student.current_cgpa = None THEN RMul(Rat(2, 10), R(30))
    ELSE IF RLt(student.current_cgpa[1], R(6)) THEN RMul(Rat(2, 10), R(80))
    ELSE IF RLt(student.current_cgpa[1], R(7)) THEN RMul(Rat(2, 10), R(40))
    ELSE RMul(Rat(2, 10), R(10))

\* the year contribution of the claim
ClaimedYear ==
    IF student.current_year = 1 THEN RMul(Rat(1, 10), R(70))
    ELSE IF student.current_year >= 4 THEN RMul(Rat(1, 10), R(60))
    ELSE RMul(Rat(1, 10), R(40))

\* C24: the dropout risk score is 0.6 x stress plus the academic, the
\* scholarship and the year contribution, clamped to [0, 100]; the academic
\* contribution is 0.2 x 80 for every known CGPA below 6.0, a CGPA of 0
\* included, 0.2 x 40 from 6.0 to below 7.0, 0.2 x 10 from 7.0, and 0.2 x 30
\* only for an unknown CGPA; the year contribution is 0.1 x 70 in year 1,
\* 0.1 x 60 from year 4 and 0.1 x 40 otherwise
C24_DropoutFormula ==
    LET stress == calculate_financial_stress_score(student, expenses, budgets)
        scholarship == RMul(Rat(1, 10), calculate_scholarship_success_score(applications))
        total == RAdd(RAdd(RMul(Rat(6, 10), stress), ClaimedAcademic),
                      RAdd(scholarship, ClaimedYear))
    IN  calculate_dropout_risk_score(student, expenses, budgets, applications) =
            RMax(R(0), RMin(R(100), total))

\* the applications of the state at hand in one of the given statuses
CountIn(statuses) == Len(SelectSeq(applications, LAMBDA a : a \in statuses))

\* C25: the scholarship success score is 100 minus the percentage of
\* approved, awarded or disbursed applications among those in a terminal
\* state (these and the rejected ones), so that a submitted or under-review
\* application does not lower the rate; it is the neutral 50 when no
\* application counts
C25_ScholarshipSuccess ==
    LET successful == CountIn({"approved", "awarded", "disbursed"})
        terminal == successful + CountIn({"rejected"})
    IN  calculate_scholarship_success_score(applications) =
            IF terminal = 0 THEN R(50)
            ELSE RSub(R(100), RMul(Rat(successful, terminal), R(100)))

(***************************************************************************)
(* Claims about the expense analytics                                      *)
(***************************************************************************)
\* the position of a category in the list returned
PositionOf(categories, name) ==
    CHOOSE i \in 1..Len(categories) : categories[i].category = name

\* C26: over no expenses the category_insights are total_spent 0, no categories and
\* null leaders; otherwise total_spent is the sum of the category totals, the
\* categories come in descending order of total, the most expensive category
\* has the largest total and the most frequent one the largest count, and
\* among categories that tie the one listed first is chosen
C26_CategoryInsights ==
    category_insights # None =>
        LET out == category_insights[1]
            cats == out.categories
            n == Len(cats)
            amounts == [i \in 1..Len(category_expenses) |-> category_expenses[i].amount]
        IN  IF category_expenses = <<>>
            THEN /\ out.total_spent = R(0)
                 /\ cats = <<>>
                 /\ out.most_frequent_category = None
                 /\ out.most_expensive_category = None
            ELSE /\ n > 0
                 /\ out.total_spent = RSum([i \in 1..n |-> cats[i].total_amount])
                 /\ out.total_spent = RSum(amounts)
                 /\ \A i \in 1..n, j \in 1..n :
                        i < j => RLe(cats[j].total_amount, cats[i].total_amount)
                 /\ out.most_expensive_category # None
                 /\ out.most_frequent_category # None
                 /\ LET e == PositionOf(cats, out.most_expensive_category[1])
                        f == PositionOf(cats, out.most_frequent_category[1])
                    IN  /\ \A i \in 1..n : RLe(cats[i].total_amount, cats[e].total_amount)
                        /\ \A i \in 1..n :
                               cats[i].total_amount = cats[e].total_amount => e <= i
                        /\ \A i \in 1..n :
                               cats[i].transaction_count <= cats[f].transaction_count
                        /\ \A i \in 1..n :
                               cats[i].transaction_count = cats[f].transaction_count
                                   => f <= i

\* two categories with one expense each, 60 on food and 40 on books: both
\* leaders are food, the first of the list
C26_Witness ==
    /\ category_insights # None
    /\ Len(category_insights[1].categories) = 2
    /\ category_insights[1].categories[1].category = "food"
    /\ category_insights[1].categories[1].transaction_count = category_insights[1].categories[2].transaction_count
    /\ RLt(category_insights[1].categories[2].total_amount, category_insights[1].categories[1].total_amount)
    /\ category_insights[1].most_frequent_category = Some("food")
    /\ category_insights[1].most_expensive_category = Some("food")

(***************************************************************************)
(* Claims about the budget alerts                                          *)
(***************************************************************************)
ThresholdAlerts == {a \in alert_log : a.type = "budget_threshold"}

\* the alerts handed out are those of an active budget at or over its
\* threshold, with the priority of its utilisation
AlertsOnlyOverThreshold ==
    /\ ThresholdAlerts # {} =>
           /\ alert_budget # None
           /\ alert_budget[1].status = "active"
           /\ RLe(alert_budget[1].alert_threshold,
                  RDiv(alert_budget[1].spent_amount, alert_budget[1].total_amount))
    /\ \A a \in ThresholdAlerts :
           a.priority = IF RLe(Rat(9, 10), RDiv(alert_budget[1].spent_amount,
                                                alert_budget[1].total_amount))
                        THEN "high" ELSE "medium"
    /\ (alert_budget = None \/ alert_budget[1].status # "active") =>
           /\ alert_log = {}
           /\ \A p \in Procs : checkers[p].returned \in {None, Some(<<>>)}

NoOverlappingActive ==
    \A i \in 1..Len(period_rows), j \in 1..Len(period_rows) :
        (/\ i < j
         /\ period_rows[i].student_id = period_rows[j].student_id
         /\ period_rows[i].status = "active"
         /\ period_rows[j].status = "active")
        => ~(/\ period_rows[i].start_date <= period_rows[j].end_date
             /\ period_rows[i].end_date >= period_rows[j].start_date)

OverlappingCreateConflicts ==
    (/\ period_outcome # None
     /\ period_outcome[1].op = "create_budget"
     /\ period_outcome[1].data.end_date > period_outcome[1].data.start_date
     /\ period_outcome[1].overlapped)
    => /\ period_outcome[1].status = "ConflictError"
       /\ ~period_outcome[1].created

InvalidDatesRejected ==
    (/\ period_outcome # None
     /\ period_outcome[1].op = "create_budget"
     /\ period_outcome[1].data.end_date <= period_outcome[1].data.start_date)
    => /\ period_outcome[1].status = "ValidationError"
       /\ ~period_outcome[1].created

\* C28: after any sequence or interleaving of create_budget, update_budget
\* and delete_budget no student has two ACTIVE budgets with overlapping date
\* ranges; a create_budget that overlaps an active budget of the student
\* fails with a conflict and creates nothing, and one with
\* end_date <= start_date fails with a validation error and creates nothing
C28_NoOverlappingActive ==
    /\ NoOverlappingActive
    /\ OverlappingCreateConflicts
    /\ InvalidDatesRejected

(***************************************************************************)
(* Claims about the budget ledger and its expenses                         *)
(***************************************************************************)
\* C29: after any sequence of create_expense, update_expense and
\* delete_expense calls every budget's spent_amount equals the sum of the
\* amounts of the expenses linked to it, which is also the value
\* update_budget_spending recomputes
C29_SpentIsSumOfExpenses ==
    \A k \in 1..Len(budget_rows) :
        budget_rows[k].spent_amount = spent_on(expense_rows, k)

(***************************************************************************)
(* Claims about payments and refunds                                       *)
(***************************************************************************)
RECURSIVE refunded_sum(_, _)
refunded_sum(rows, payment_id) ==
    IF rows = <<>> THEN 0
    ELSE (IF rows[Len(rows)].refund_of = payment_id THEN rows[Len(rows)].amount ELSE 0)
         + refunded_sum(SubSeq(rows, 1, Len(rows) - 1), payment_id)

\* C30: for every payment, over any sequence or interleaving of
\* create_refund, simulate_payment, update_payment_status and
\* process_webhook calls, the refund amounts created against it sum to at
\* most the payment's amount
C30_RefundsWithinAmount ==
    \A i \in 1..Len(payments) : refunded_sum(payments, i) <= payments[i].amount

====
